---------------------------- MODULE Spec2Model ----------------------------
(* A model of the STM32 UART DFU host driver (stm32_uart_dfu/stm32uartdfu.py). *)
(* The host side is translated from the Python source; the device is the   *)
(* environment behind the serial port: it answers every frame with ACK,    *)
(* NACK, another byte or nothing, stores acknowledged write chunks and     *)
(* serves reads from the same memory.                                      *)
EXTENDS Integers, Sequences, FiniteSets, TLC

(***************************************************************************)
(* Program constants                                                       *)
(***************************************************************************)
_RESPONSE_SIZE == 1
_RW_MAX_SIZE == 256
_RETRIES == 3
DEFAULT_TIMEOUT == 1
ERASE_TIMEOUT == 300
ACK == 121
NACK == 31
INIT_BYTE == 127
CMD_GET_VERSION == 0
CMD_GET_VERSION_RPS == 1
CMD_GET_ID == 2
CMD_READ_MEMORY == 17
CMD_GO == 33
CMD_WRITE_MEMORY == 49
CMD_EXTENDED_ERASE == 68

(***************************************************************************)
(* Bounds of the model                                                     *)
(***************************************************************************)
\* the longest transfer tried by read and write (a full chunk and a rest)
MaxSize == 257
\* public operations per driver instance
MaxOps == 2
\* longest byte sequence given to the checksum on its own
MaxLen == 4
\* public calls on one driver in the runs checked for termination
MaxLiveOps == 1

(***************************************************************************)
(* Python values                                                           *)
(***************************************************************************)
\* an optional value: None, or Some(v)
None == <<>>
Some(v) == <<v>>
Val(o) == o[1]
\* Python truthiness of an optional int, and of an optional bytes object or list
TruthyInt(o) == o # None /\ Val(o) # 0
\* a memo test that never finds the memo set
TruthySeq_Never(o) == FALSE
TruthySeq(o) == o # None /\ Val(o) # <<>>

Byte == 0..255

Min(a, b) == IF a < b THEN a ELSE b

RECURSIVE Pow(_, _)
Pow(b, e) == IF e = 0 THEN 1 ELSE b * Pow(b, e - 1)

\* int.to_bytes(length, 'big') of a value that fits
to_bytes(v, length) == [i \in 1..length |-> (v \div Pow(256, length - i)) % 256]

RECURSIVE from_bytes(_)
\* int.from_bytes(b, 'big')
from_bytes(b) ==
    IF b = <<>> THEN 0 ELSE 256 * from_bytes(SubSeq(b, 1, Len(b) - 1)) + b[Len(b)]

RECURSIVE BitXor(_, _)
\* the bitwise exclusive or of two non-negative ints, bit by bit
BitXor(a, b) ==
    IF a = 0 THEN b
    ELSE IF b = 0 THEN a
    ELSE (((a % 2) + (b % 2)) % 2) + 2 * BitXor(a \div 2, b \div 2)

\* the exclusive or of every pair of bytes, computed once
XorTable == [a \in Byte |-> [b \in Byte |-> BitXor(a, b)]]

\* operator.xor on bytes
xor(a, b) == XorTable[a][b]

RECURSIVE fold_xor(_, _, _, _)
\* the left fold of xor over data[i..j] from init, element by element; runs
\* longer than 16 are folded 16 elements at a time, and each accumulator is
\* evaluated before the fold goes on, which keeps the evaluation shallow
fold_xor(data, init, i, j) ==
    IF i > j THEN init
    ELSE IF j - i < 16
    THEN LET acc == xor(init, data[i])
         IN IF acc >= 0 THEN fold_xor(data, acc, i + 1, j) ELSE acc
    ELSE LET acc == fold_xor(data, init, i, i + 15)
         IN IF acc >= 0 THEN fold_xor(data, acc, i + 16, j) ELSE acc

\* functools.reduce(xor, data, init)
\* a fold that shifts the running value before each byte: it depends on order
RECURSIVE fold_shift(_, _, _)
fold_shift(data, acc, i) ==
    IF i > Len(data) THEN acc
    ELSE fold_shift(data, xor((2 * acc) % 256, data[i]), i + 1)
reduce_shift(data, init) == fold_shift(data, init, 1)

reduce_xor(data, init) == fold_xor(data, init, 1, Len(data))

\* _checksum(data, init): data is a sequence of bytes (the reduce branch)
_checksum_seq(data, init) == << reduce_xor(data, init) % 256 >>

\* _checksum(data): data is an int (the 0xff - data branch)
\* the two's complement in place of 0xFF - data
_checksum_int_Negated(data) == << (256 - data) % 256 >>

_checksum_int(data) == << (255 - data) % 256 >>

\* the frame of a one-byte value: the value and its checksum
ScalarFrame(v) == to_bytes(v, 1) \o _checksum_int(v)

\* port.read(n) on the bytes that arrive before the timeout: at most n of them
Take(stream, n) == SubSeq(stream, 1, Min(n, Len(stream)))
Drop(stream, n) == SubSeq(stream, Min(n, Len(stream)) + 1, Len(stream))

(***************************************************************************)
(* The device behind the port                                              *)
(***************************************************************************)
\* flash sectors of the device, in erase-index order (index 0 first)
DEV_SECTORS == << [address |-> 256, size |-> 256], [address |-> 512, size |-> 64] >>
MemSize == DEV_SECTORS[Len(DEV_SECTORS)].address + DEV_SECTORS[Len(DEV_SECTORS)].size
MemAddr == 0..(MemSize - 1)
InitMem == [a \in MemAddr |-> (7 * a + 3) % 251]
\* the product id the device reports (2 bytes, as test_read_id expects)
DEV_ID == <<4, 19>>
DEV_VERSION == 49
\* the two option bytes the device sends after the version
DEV_OPTION_BYTES == <<0, 0>>
DEV_COMMANDS == <<0, 1, 2, 17, 33, 49, 68>>
\* the command lists a bootloader reports: the one the test expects, or none
DEV_COMMAND_LISTS == {DEV_COMMANDS, <<>>}

\* a frame the device accepts: the last byte is the checksum of the others
ValidScalarFrame(f) == Len(f) = 2 /\ f[2] = 255 - f[1]
ValidSeqFrame(f) == Len(f) >= 2 /\ f[Len(f)] = reduce_xor(SubSeq(f, 1, Len(f) - 1), 0)

\* the byte the device answers a frame with: ACK, NACK, another byte, or nothing
\* before the read times out; only a complete valid frame can be acknowledged,
\* and a device that has left the bootloader answers nothing
Answers(valid, running) ==
    IF running THEN {<<>>}
    ELSE IF valid THEN {<<ACK>>, <<NACK>>, <<0>>, <<>>}
    ELSE {<<NACK>>, <<>>}

\* the bytes mem holds at [a, a+n)
MemRead(m, a, n) == [i \in 1..n |-> m[a + i - 1]]
\* mem after the chunk was stored at a
MemWrite(m, a, chunk) ==
    [x \in MemAddr |-> IF a <= x /\ x < a + Len(chunk) THEN chunk[x - a + 1] ELSE m[x]]
\* mem after the sectors with the given indices were erased
MemErase(m, idx) ==
    [x \in MemAddr |->
        IF \E i \in idx : /\ i + 1 \in DOMAIN DEV_SECTORS
                          /\ DEV_SECTORS[i + 1].address <= x
                          /\ x < DEV_SECTORS[i + 1].address + DEV_SECTORS[i + 1].size
        THEN 255 ELSE m[x]]
AllSectors == {i - 1 : i \in DOMAIN DEV_SECTORS}

(***************************************************************************)
(* Inputs                                                                  *)
(***************************************************************************)
\* int(text, 0) of the memory map's strings: "0x.." is hexadecimal, else decimal
DigitVal(ch) ==
    CASE ch = "0" -> 0 [] ch = "1" -> 1 [] ch = "2" -> 2 [] ch = "3" -> 3
      [] ch = "4" -> 4 [] ch = "5" -> 5 [] ch = "6" -> 6 [] ch = "7" -> 7
      [] ch = "8" -> 8 [] ch = "9" -> 9 [] ch = "a" -> 10 [] ch = "b" -> 11
      [] ch = "c" -> 12 [] ch = "d" -> 13 [] ch = "e" -> 14 [] ch = "f" -> 15

RECURSIVE ParseDigits(_, _)
ParseDigits(ds, base) ==
    IF ds = <<>> THEN 0
    ELSE base * ParseDigits(SubSeq(ds, 1, Len(ds) - 1), base) + DigitVal(ds[Len(ds)])

int_auto(text) ==
    IF Len(text) > 2 /\ text[1] = "0" /\ text[2] = "x"
    THEN ParseDigits(SubSeq(text, 3, Len(text)), 16)
    ELSE ParseDigits(text, 10)

\* the memory map file of the device: a list of {'address': str, 'size': str}
MEMORY_MAP ==
    << [address |-> <<"0", "x", "1", "0", "0">>, size |-> <<"0", "x", "1", "0", "0">>],
       [address |-> <<"5", "1", "2">>, size |-> <<"6", "4">>] >>
\* the first three sectors of an STM32F4 flash (memory_map/stm32f407.json)
STM_MAP ==
    << [address |-> <<"0", "x", "0", "8", "0", "0", "0", "0", "0", "0">>, size |-> <<"0", "x", "4", "0", "0", "0">>],
       [address |-> <<"0", "x", "0", "8", "0", "0", "4", "0", "0", "0">>, size |-> <<"0", "x", "4", "0", "0", "0">>],
       [address |-> <<"0", "x", "0", "8", "0", "0", "8", "0", "0", "0">>, size |-> <<"0", "x", "8", "0", "0", "0">>] >>
\* a map with a hole between its two sectors
GAP_MAP ==
    << [address |-> <<"0", "x", "1", "0", "0">>, size |-> <<"0", "x", "4", "0">>],
       [address |-> <<"0", "x", "1", "8", "0">>, size |-> <<"0", "x", "4", "0">>] >>
\* the sectors of MEMORY_MAP listed in descending order
UNSORTED_MAP ==
    << [address |-> <<"5", "1", "2">>, size |-> <<"6", "4">>],
       [address |-> <<"0", "x", "1", "0", "0">>, size |-> <<"0", "x", "1", "0", "0">>] >>
MemoryMaps == {None, Some(MEMORY_MAP)}
\* a map of three small sectors that starts at address 0
LOW_MAP ==
    << [address |-> <<"0">>, size |-> <<"4">>],
       [address |-> <<"4">>, size |-> <<"0", "x", "8">>],
       [address |-> <<"1", "2">>, size |-> <<"4">>] >>

Sizes == {1, _RW_MAX_SIZE, MaxSize}
\* the bytes written: a run that starts at seed (the first byte is the ACK
\* value) and steps by 3
Pattern(seed, n) == [i \in 1..n |-> (seed + 3 * (i - 1)) % 256]
Datas == {Pattern(ACK, n) : n \in {1, MaxSize}}
\* address 0 is an address like any other; 1 is not chunk-aligned
Addresses == {0, 1}

ReadArgs ==
    {[address |-> Some(a), size |-> Some(n), memory_map |-> None] :
        a \in Addresses, n \in Sizes}
    \cup {[address |-> None, size |-> None, memory_map |-> m] : m \in MemoryMaps}
    \cup {[address |-> Some(0), size |-> Some(1), memory_map |-> Some(MEMORY_MAP)]}
EraseArgs ==
    {[address |-> None, size |-> None, memory_map |-> m] : m \in MemoryMaps}
    \cup {[address |-> Some(a), size |-> Some(n), memory_map |-> Some(MEMORY_MAP)] :
            a \in {0, 256, 300}, n \in {256, 300}}
    \cup {[address |-> Some(256), size |-> None, memory_map |-> m] : m \in MemoryMaps}
    \cup {[address |-> None, size |-> Some(256), memory_map |-> Some(MEMORY_MAP)]}
    \cup {[address |-> Some(134217792), size |-> Some(n), memory_map |-> Some(STM_MAP)] :
            n \in {76543, 16384}}
    \cup {[address |-> Some(256), size |-> Some(160), memory_map |-> Some(GAP_MAP)],
          [address |-> Some(300), size |-> Some(250), memory_map |-> Some(UNSORTED_MAP)]}

(***************************************************************************)
(* State                                                                   *)
(***************************************************************************)
VARIABLES
    port,           \* "closed" or "open": the serial handle
    timeout,        \* the port's read timeout, seconds
    _id, _version, _commands, _read_protection_status,
                    \* the memo fields, None until read
    pc,             \* where the driver's caller is
    call,           \* the public call in progress: name and arguments
    address, size, size_remain, data, parameters,   \* locals of read/write/erase
    tries,          \* failed attempts of the retried function around the step
    cmdTries,       \* failed attempts of _send_command
    flushes,        \* _serial_flush calls since the outermost retried call began
    fails,          \* exceptions caught by a retry wrapper since then
    exhausted,      \* a retry wrapper raised "failed after 3 retries" in this call
    tx,             \* what the latest step wrote to the port
    result,         \* how the public call ended, once it has
    rx,             \* what the device sent in answer to the latest query
    lastWrite,      \* address and data of the write that succeeded last, if the
                    \* call before this one was that write
    lastErase,      \* the call before this one was a mass erase that succeeded
    opsDone,        \* public calls made on this driver
    progress,       \* the values progress_update was called with in this call
    handler,        \* the command-line handler in progress: name, stage, arguments
    bar_thread,     \* the ProgressBarThread the handler started last: whether it
                    \* runs, where its loop is and what it has drawn
    mem, devAddr, devRunning,   \* the device: memory, latched address, jumped
    ckIn, ckOut,    \* argument and value of a checksum evaluated on its own
    wire            \* the serial line seen byte by byte: the device's bytes on
                    \* their way, the port's input buffer, the ACK taken last

linkVars == <<port, timeout>>
memoVars == <<_id, _version, _commands, _read_protection_status>>
localVars == <<address, size, size_remain, data, parameters>>
ctlVars == <<tries, cmdTries, flushes, fails, exhausted>>
histVars == <<lastWrite, lastErase, opsDone>>
cliVars == <<handler, bar_thread>>
hostVars == <<linkVars, memoVars, pc, call, localVars, ctlVars, tx, rx, result,
              histVars, progress, cliVars>>
devVars == <<mem, devAddr, devRunning>>
ckVars == <<ckIn, ckOut>>
vars == <<hostVars, devVars, ckVars, wire>>

NoCall == [name |-> "none", address |-> None, size |-> None, data |-> <<>>,
           memory_map |-> None]
NoTx == [step |-> "none", frames |-> <<>>, awaited |-> FALSE]
NoResult == [op |-> "none", status |-> "none", value |-> <<>>]
NoRx == [step |-> "none", stream |-> <<>>, taken |-> <<>>]
NoCk == [kind |-> "none", value |-> 0, data |-> <<>>, init |-> 0]
NoHandler == [name |-> "none", stage |-> "none", address |-> <<>>, size |-> None,
              memory_map |-> None, firmware |-> <<>>, erase |-> FALSE, run |-> FALSE]
NoThread == [alive |-> FALSE, endless |-> FALSE, aborted |-> FALSE,
             at |-> "none", rendered |-> <<>>]
NoWire == [in_flight |-> <<>>, in_buffer |-> <<>>, accepted |-> <<>>]

\* the driver before construction, the device in its bootloader
InitDriver ==
    /\ port = "closed" /\ timeout = DEFAULT_TIMEOUT
    /\ _id = None /\ _version = None /\ _commands = None
    /\ _read_protection_status = None
    /\ pc = "new" /\ call = NoCall
    /\ address = 0 /\ size = 0 /\ size_remain = 0 /\ data = <<>> /\ parameters = <<>>
    /\ tries = 0 /\ cmdTries = 0 /\ flushes = 0 /\ fails = 0 /\ exhausted = FALSE
    /\ tx = NoTx /\ rx = NoRx /\ result = NoResult /\ lastWrite = None /\ opsDone = 0
    /\ lastErase = FALSE /\ progress = <<>>
    /\ handler = NoHandler /\ bar_thread = NoThread
    /\ mem = InitMem /\ devAddr = 0 /\ devRunning = FALSE
    /\ wire = NoWire

Init ==
    /\ InitDriver
    /\ ckIn = NoCk /\ ckOut = None

(***************************************************************************)
(* Transport                                                               *)
(***************************************************************************)
\* port.write(data): the number of bytes the port accepted
WriteResults(bytes) == {Len(bytes), Len(bytes) - 1}

\* _serial_write(data): raises DfuSerialIOException unless all was accepted
_serial_write(bytes, done) == [sent |-> Take(bytes, done), raised |-> done # Len(bytes)]

\* _serial_read(amount) on the bytes that arrive: port.read() reads one byte
_serial_read(stream, amount) ==
    LET n == IF amount # 0 THEN amount ELSE _RESPONSE_SIZE
        got == Take(stream, n)
    IN [data |-> got, rest |-> Drop(stream, n),
        raised |-> amount # 0 /\ Len(got) # amount]

\* a check that takes every byte but NACK for an acknowledgement
_check_acknowledge_NotNack(stream) ==
    LET response == Take(stream, _RESPONSE_SIZE)
    IN [rest |-> Drop(stream, _RESPONSE_SIZE),
        raised |-> response = <<>> \/ response = <<NACK>>]

\* a check that never raises
_check_acknowledge_Never(stream) ==
    [rest |-> Drop(stream, _RESPONSE_SIZE), raised |-> FALSE]

\* _check_acknowledge(): reads one byte; raises unless it is ACK
_check_acknowledge(stream) ==
    LET response == Take(stream, _RESPONSE_SIZE)
    IN [rest |-> Drop(stream, _RESPONSE_SIZE),
        raised |-> response = <<>> \/ response # <<ACK>>]

\* a wrapper whose exc_call does not flush the link
_serial_flush_Skipped(n) == n

\* _serial_flush(): flushInput and flushOutput, counted
_serial_flush(n) == n + 1

(***************************************************************************)
(* _retry                                                                  *)
(***************************************************************************)
\* the retry state of the call in progress
Ctl == [tries |-> tries, cmdTries |-> cmdTries, flushes |-> flushes,
        fails |-> fails, exhausted |-> exhausted, raised |-> FALSE]

\* the except branch: exc_call(args[0]), last_caught = ex
Caught(c) == [c EXCEPT !.flushes = _serial_flush(@), !.fails = @ + 1]

\* a loop that allows one attempt more than retry_num
LoopEnds_OneMore(n) == n > _RETRIES

\* a wrapper raises DfuException ('failed after 3 retries') after _RETRIES failed attempts
LoopEnds(n) == n >= _RETRIES

\* a wrapper that leaves the count of _send_command's wrapper as it is
retry_wrapper_KeepsCmdTries(c) ==
    LET d == [Caught(c) EXCEPT !.tries = @ + 1]
    IN IF LoopEnds(d.tries)
       THEN [d EXCEPT !.exhausted = TRUE, !.raised = TRUE]
       ELSE d

\* retry_wrapper around the function the step belongs to, after a failed attempt
retry_wrapper(c) ==
    LET d == [Caught(c) EXCEPT !.tries = @ + 1, !.cmdTries = 0]
    IN IF LoopEnds(d.tries)
       THEN [d EXCEPT !.exhausted = TRUE, !.raised = TRUE]
       ELSE d

\* retry_wrapper around _send_command, after a failed attempt; the DfuException
\* it raises at the end is caught by the wrapper of the calling function
\* (nested), or leaves the public call (erase calls _send_command directly)
retry_wrapper_cmd(c, nested) ==
    LET d == [Caught(c) EXCEPT !.cmdTries = @ + 1]
    IN IF LoopEnds(d.cmdTries)
       THEN IF nested
            THEN retry_wrapper([d EXCEPT !.exhausted = TRUE])
            ELSE [d EXCEPT !.exhausted = TRUE, !.raised = TRUE]
       ELSE d

SetCtl(d) ==
    /\ tries' = d.tries /\ cmdTries' = d.cmdTries /\ flushes' = d.flushes
    /\ fails' = d.fails /\ exhausted' = d.exhausted

\* a retried call begins: the wrappers' loops start over
FreshCtl ==
    /\ tries' = 0 /\ cmdTries' = 0 /\ flushes' = 0 /\ fails' = 0

\* the public call returns or raises to its caller
Return(status, value) ==
    /\ pc' = "ready"
    /\ result' = [op |-> call.name, status |-> status, value |-> value]

(***************************************************************************)
(* Construction                                                            *)
(***************************************************************************)
\* __init__: serial.Serial(...) opens the port, then _uart_dfu_init() begins
Open ==
    /\ pc = "new"
    /\ port' = "open" /\ pc' = "init"
    /\ UNCHANGED <<timeout, memoVars, call, localVars, ctlVars, tx, result,
                   histVars, devVars, rx, ckVars, wire, progress, cliVars>>

\* one attempt of _uart_dfu_init under its retry wrapper; on success __init__
\* sets the memo fields to None and the driver is ready
_uart_dfu_init ==
    /\ pc = "init"
    /\ \E done \in WriteResults(to_bytes(INIT_BYTE, 1)),
          answer \in Answers(TRUE, devRunning) :
        LET w == _serial_write(to_bytes(INIT_BYTE, 1), done)
            a == _check_acknowledge(answer)
            d == retry_wrapper(Ctl)
        IN /\ tx' = [step |-> "init", frames |-> <<w.sent>>, awaited |-> ~w.raised]
           /\ IF ~w.raised /\ ~a.raised
              THEN /\ pc' = "ready"
                   /\ _id' = None /\ _version' = None /\ _commands' = None
                   /\ _read_protection_status' = None
                   /\ UNCHANGED ctlVars
              ELSE /\ SetCtl(d)
                   /\ pc' = IF d.raised THEN "failed" ELSE "init"
                   /\ UNCHANGED memoVars
    /\ UNCHANGED <<linkVars, call, localVars, result, histVars,
                   devVars, rx, ckVars, wire, progress, cliVars>>

\* __exit__: the port is closed when the with-block is left, which is when
\* the handler the block runs has returned or raised
__exit__ ==
    /\ pc = "ready" /\ port = "open"
    /\ handler.stage \in {"none", "returned", "raised"}
    /\ port' = "closed" /\ pc' = "closed"
    /\ UNCHANGED <<timeout, memoVars, call, localVars, ctlVars, tx, result,
                   histVars, devVars, rx, ckVars, wire, progress, cliVars>>

(***************************************************************************)
(* Public calls: the code up to the first frame                            *)
(***************************************************************************)
CanCall == pc = "ready" /\ opsDone < MaxOps

NoArgs == [address |-> None, size |-> None, data |-> <<>>, memory_map |-> None]
NoLocals == [address |-> 0, size |-> 0, data |-> <<>>, parameters |-> <<>>,
             progress |-> <<>>]

\* a callback that is called twice with each value
progress_update_Twice(reported, value) == reported \o <<value, value>>

\* progress_update(value): the callback is called once more, with value
progress_update(reported, value) == Append(reported, value)

\* the percentage of what is still to do
percent_OfRemaining(done, total) == (100 * (total - done)) \div total

\* int(100 * done / total), the percentage read and write report
percent(done, total) == (100 * done) \div total

\* what read and write have reported when the first chunk begins, or when
\* there is no chunk at all
FirstReport(total) ==
    progress_update(<<>>, IF total = 0 THEN 100 ELSE percent(0, total))

\* an erase that sends its command frame before it computes the parameters,
\* so that a rejected call has already written to the port
Begin_CommandFirst(name, args, loc, status, value) ==
    /\ call' = [name |-> name, address |-> args.address, size |-> args.size,
                data |-> args.data, memory_map |-> args.memory_map]
    /\ opsDone' = opsDone + 1
    /\ FreshCtl /\ exhausted' = FALSE
    /\ tx' = IF name = "erase" /\ status \notin {"run", "ok"}
             THEN [step |-> "cmd", frames |-> << <<68, 187>> >>, awaited |-> TRUE]
             ELSE NoTx
    /\ rx' = NoRx
    /\ address' = loc.address /\ size' = loc.size /\ size_remain' = loc.size
    /\ data' = loc.data /\ parameters' = loc.parameters
    /\ progress' = loc.progress
    /\ lastErase' = (result.op = "erase" /\ result.status = "ok"
                        /\ parameters = <<255, 255, 0>>)
    /\ lastWrite' = IF result.op = "write" /\ result.status = "ok"
                    THEN Some([address |-> Val(call.address), data |-> call.data])
                    ELSE None
    /\ IF status = "run"
       THEN pc' = "cmd" /\ result' = NoResult
       ELSE pc' = "ready" /\ result' = [op |-> name, status |-> status, value |-> value]

\* a public call begins with fresh locals; status "run" goes on to the first
\* command frame, any other status is what the call returns or raises at once
Begin(name, args, loc, status, value) ==
    /\ call' = [name |-> name, address |-> args.address, size |-> args.size,
                data |-> args.data, memory_map |-> args.memory_map]
    /\ opsDone' = opsDone + 1
    /\ FreshCtl /\ exhausted' = FALSE
    /\ tx' = NoTx /\ rx' = NoRx
    /\ address' = loc.address /\ size' = loc.size /\ size_remain' = loc.size
    /\ data' = loc.data /\ parameters' = loc.parameters
    /\ progress' = loc.progress
    /\ lastErase' = (result.op = "erase" /\ result.status = "ok"
                        /\ parameters = <<255, 255, 0>>)
    /\ lastWrite' = IF result.op = "write" /\ result.status = "ok"
                    THEN Some([address |-> Val(call.address), data |-> call.data])
                    ELSE None
    /\ IF status = "run"
       THEN pc' = "cmd" /\ result' = NoResult
       ELSE pc' = "ready" /\ result' = [op |-> name, status |-> status, value |-> value]

\* the id property: the memo is returned if set, else the command is sent
id ==
    /\ CanCall
    /\ IF TruthySeq(_id)
       THEN Begin("id", NoArgs, NoLocals, "ok", Val(_id))
       ELSE Begin("id", NoArgs, NoLocals, "run", <<>>)
    /\ UNCHANGED <<linkVars, memoVars, devVars, ckVars, wire, cliVars>>

\* the version property
version ==
    /\ CanCall
    /\ IF TruthySeq(_version)
       THEN Begin("version", NoArgs, NoLocals, "ok", Val(_version))
       ELSE Begin("version", NoArgs, NoLocals, "run", <<>>)
    /\ UNCHANGED <<linkVars, memoVars, devVars, ckVars, wire, cliVars>>

\* the commands property: the memo if it is set, else the version property
\* is read (which answers from its own memo if that is set) and the memo is
\* returned as it then is
commands ==
    /\ CanCall
    /\ IF TruthySeq(_commands)
       THEN Begin("commands", NoArgs, NoLocals, "ok", Val(_commands))
       ELSE IF TruthySeq(_version)
       THEN Begin("commands", NoArgs, NoLocals, "ok",
                  IF _commands = None THEN <<>> ELSE Val(_commands))
       ELSE Begin("commands", NoArgs, NoLocals, "run", <<>>)
    /\ UNCHANGED <<linkVars, memoVars, devVars, ckVars, wire, cliVars>>

\* the read_protection_status property
read_protection_status ==
    /\ CanCall
    /\ IF TruthySeq(_read_protection_status)
       THEN Begin("read_protection_status", NoArgs, NoLocals, "ok",
                  Val(_read_protection_status))
       ELSE Begin("read_protection_status", NoArgs, NoLocals, "run", <<>>)
    /\ UNCHANGED <<linkVars, memoVars, devVars, ckVars, wire, cliVars>>

\* the body of go(address)
go_call(a) ==
    Begin("go", [NoArgs EXCEPT !.address = Some(a)],
          [NoLocals EXCEPT !.address = a], "run", <<>>)

\* go(address)
go ==
    /\ CanCall
    /\ \E a \in Addresses : go_call(a)
    /\ UNCHANGED <<linkVars, memoVars, devVars, ckVars, wire, cliVars>>

\* the address read starts at when none is given: the first sector's
DefaultAddress(map) == int_auto(map[1].address)

\* a default size that is the size of the last sector alone
DefaultSize_LastSector(map, addr) == int_auto(map[Len(map)].size)

\* the size read takes when none is given: from the start address to the end
\* of the last sector
DefaultSize(map, addr) ==
    int_auto(map[Len(map)].address) + int_auto(map[Len(map)].size) - addr

\* the body of read(address, size, progress_update, memory_map=...): the
\* defaults from the memory map, the first progress report, then the first chunk
read_call(args) ==
    LET m == args.memory_map
        useMap == ~TruthyInt(args.address) \/ ~TruthyInt(args.size)
        addr == IF TruthyInt(args.address) THEN Val(args.address)
                ELSE DefaultAddress(Val(m))
        sz == IF TruthyInt(args.size) THEN Val(args.size)
              ELSE DefaultSize(Val(m), addr)
        given == [NoArgs EXCEPT !.address = args.address, !.size = args.size,
                                !.memory_map = m]
    IN IF useMap /\ m = None
       THEN Begin("read", given, NoLocals, "TypeError", <<>>)
       ELSE Begin("read", given,
                  [NoLocals EXCEPT !.address = addr, !.size = sz,
                                   !.progress = FirstReport(sz)],
                  IF sz = 0 THEN "ok" ELSE "run", <<>>)

\* read(address, size, memory_map=...)
read ==
    /\ CanCall
    /\ \E args \in ReadArgs : read_call(args)
    /\ UNCHANGED <<linkVars, memoVars, devVars, ckVars, wire, cliVars>>

\* the body of write(address, data, progress_update)
write_call(a, bytes) ==
    Begin("write", [NoArgs EXCEPT !.address = Some(a), !.data = bytes],
          [NoLocals EXCEPT !.address = a, !.size = Len(bytes),
                           !.progress = FirstReport(Len(bytes))],
          IF Len(bytes) = 0 THEN "ok" ELSE "run", <<>>)

\* write(address, data)
write ==
    /\ CanCall
    /\ \E a \in Addresses, bytes \in Datas : write_call(a, bytes)
    /\ UNCHANGED <<linkVars, memoVars, devVars, ckVars, wire, cliVars>>

\* the index of the first list element that satisfies the comprehension's test
First(S) == CHOOSE i \in S : \A j \in S : i <= j

RECURSIVE SectorBytes(_, _)
\* b''.join(s.to_bytes(2, 'big') for s in range(start, end + 1))
SectorBytes(start, end) ==
    IF start > end THEN <<>> ELSE to_bytes(start, 2) \o SectorBytes(start + 1, end)

\* the sectors whose range holds the start address: address <= a < address + size
StartSectors(map, a) ==
    {i \in DOMAIN map :
        /\ int_auto(map[i].address) <= a
        /\ a < int_auto(map[i].address) + int_auto(map[i].size)}
\* a lookup of the end sector that leaves out a range ending with the sector
EndSectors_Strict(map, a, n) ==
    {i \in DOMAIN map :
        /\ int_auto(map[i].address) < a + n
        /\ a + n < int_auto(map[i].address) + int_auto(map[i].size)}

\* a lookup of the end sector that drops the upper bound
EndSectors_NoUpperBound(map, a, n) ==
    {i \in DOMAIN map : int_auto(map[i].address) < a + n}

\* the sectors whose range holds the end: address < a + n <= address + size
EndSectors(map, a, n) ==
    {i \in DOMAIN map :
        /\ int_auto(map[i].address) < a + n
        /\ a + n <= int_auto(map[i].address) + int_auto(map[i].size)}

\* a frame that leads with the number of sectors in place of end - start
RangeParameters_SectorCount(start, end) ==
    LET body == to_bytes(end - start + 1, 2) \o SectorBytes(start, end)
    IN body \o _checksum_seq(body, 0)

\* the parameter frame of a ranged erase over the 0-based sectors start..end
RangeParameters(start, end) ==
    LET body == to_bytes(end - start, 2) \o SectorBytes(start, end)
    IN body \o _checksum_seq(body, 0)

\* a mass erase frame that repeats FF in place of the checksum
MassParameters_NoChecksum == <<255, 255, 255>>

\* the parameter frame of a mass erase
MassParameters == <<255, 255>> \o _checksum_seq(<<255, 255>>, 0)

\* the body of erase(address, size, memory_map, progress_update): the
\* parameters are computed, then the extended erase command is sent
erase_call(args) ==
    LET a == args.address
        n == args.size
        map == Val(args.memory_map)
        starts == StartSectors(map, Val(a))
        ends == EndSectors(map, Val(a), Val(n))
        start == First(starts) - 1
        end == First(ends) - 1
        status ==
            IF ~TruthyInt(n) /\ ~TruthyInt(a) THEN "mass"
            ELSE IF ~TruthySeq(args.memory_map) THEN "AttributeError"
            ELSE IF a = None THEN "TypeError"
            ELSE IF starts = {} THEN "AttributeError"
            ELSE IF n = None THEN "TypeError"
            ELSE IF ends = {} THEN "AttributeError"
            ELSE IF end < start THEN "OverflowError"
            ELSE "range"
        given == [NoArgs EXCEPT !.address = a, !.size = n,
                                !.memory_map = args.memory_map]
    IN IF status = "mass"
       THEN Begin("erase", given, [NoLocals EXCEPT !.parameters = MassParameters],
                  "run", <<>>)
       ELSE IF status = "range"
       THEN Begin("erase", given,
                  [NoLocals EXCEPT !.parameters = RangeParameters(start, end)],
                  "run", <<>>)
       ELSE Begin("erase", given, NoLocals, status, <<>>)

\* erase(address, size, memory_map)
erase ==
    /\ CanCall
    /\ \E args \in EraseArgs : erase_call(args)
    /\ UNCHANGED <<linkVars, memoVars, devVars, ckVars, wire, cliVars>>

(***************************************************************************)
(* Frames and steps                                                        *)
(***************************************************************************)
CommandOf(name) ==
    CASE name = "id" -> CMD_GET_ID
      [] name \in {"version", "commands"} -> CMD_GET_VERSION
      [] name = "read_protection_status" -> CMD_GET_VERSION_RPS
      [] name = "go" -> CMD_GO
      [] name = "read" -> CMD_READ_MEMORY
      [] name = "write" -> CMD_WRITE_MEMORY
      [] name = "erase" -> CMD_EXTENDED_ERASE

\* erase calls _send_command outside any retried function; every other caller
\* is itself wrapped by _retry
Nested(name) == name # "erase"

\* a read that goes from the command straight to the length frame
AfterCommand_SkipsAddress(name) ==
    CASE name \in {"go", "write"} -> "addr"
      [] name = "read" -> "len"
      [] name = "id" -> "idresp"
      [] name \in {"version", "commands"} -> "verresp"
      [] name = "read_protection_status" -> "rpsresp"
      [] name = "erase" -> "params"

AfterCommand(name) ==
    CASE name \in {"go", "read", "write"} -> "addr"
      [] name = "id" -> "idresp"
      [] name \in {"version", "commands"} -> "verresp"
      [] name = "read_protection_status" -> "rpsresp"
      [] name = "erase" -> "params"

\* every step retried in place, as if each were wrapped by _retry itself
Restart_InPlace(step) == step

\* where the next attempt begins after a failure in a step: at the top of the
\* retried function the step belongs to, which is the command frame for every
\* step but those of _perform_erase
Restart(step) ==
    IF step \in {"params", "erasewait"} THEN "params" ELSE "cmd"

\* a call that swallows the error of the wrapper and returns what it has
Fail_Swallowed(d, restart) ==
    /\ SetCtl(d)
    /\ IF d.raised THEN Return("ok", data)
       ELSE pc' = restart /\ UNCHANGED result

\* the attempt failed: the wrapper flushes and tries again from restart, or the
\* call raises to its caller
Fail(d, restart) ==
    /\ SetCtl(d)
    /\ IF d.raised THEN Return("DfuException", <<>>)
       ELSE pc' = restart /\ UNCHANGED result

\* read and write: the chunk in progress
part_size == Min(_RW_MAX_SIZE, size_remain)
offset == address + size - size_remain
chunk == SubSeq(call.data, offset - address + 1, offset - address + part_size)

\* one attempt of _send_command: [command, checksum(command)], then the ACK
_send_command ==
    /\ pc = "cmd"
    /\ LET frame == to_bytes(CommandOf(call.name), 1) \o _checksum_int(CommandOf(call.name))
       IN \E done \in WriteResults(frame) :
          LET w == _serial_write(frame, done)
          IN \E answer \in Answers(~w.raised /\ ValidScalarFrame(w.sent), devRunning) :
             LET a == _check_acknowledge(answer)
             IN /\ tx' = [step |-> "cmd", frames |-> <<w.sent>>, awaited |-> ~w.raised]
                /\ IF ~w.raised /\ ~a.raised
                   THEN /\ pc' = AfterCommand(call.name)
                        /\ IF Nested(call.name)
                           THEN cmdTries' = 0 /\ UNCHANGED <<tries, flushes, fails>>
                           ELSE FreshCtl
                        /\ UNCHANGED <<exhausted, result>>
                   ELSE Fail(retry_wrapper_cmd(Ctl, Nested(call.name)), Restart("cmd"))
    /\ rx' = NoRx
    /\ UNCHANGED <<linkVars, memoVars, call, localVars, histVars,
                   devVars, ckVars, wire, progress, cliVars>>

\* _set_address(address): the 4 address bytes and their checksum, then the ACK;
\* the device latches the address, and after go it leaves the bootloader
_set_address ==
    /\ pc = "addr"
    /\ LET target == IF call.name = "go" THEN address ELSE offset
           frame == to_bytes(target, 4) \o _checksum_seq(to_bytes(target, 4), 0)
       IN \E done \in WriteResults(frame) :
          LET w == _serial_write(frame, done)
              valid == /\ ~w.raised /\ ValidSeqFrame(w.sent)
                       /\ from_bytes(SubSeq(w.sent, 1, 4)) \in MemAddr
          IN \E answer \in Answers(valid, devRunning) :
             LET a == _check_acknowledge(answer)
                 acked == valid /\ answer = <<ACK>>
             IN /\ tx' = [step |-> "addr", frames |-> <<w.sent>>, awaited |-> ~w.raised]
                /\ devAddr' = IF acked THEN from_bytes(SubSeq(w.sent, 1, 4)) ELSE devAddr
                /\ devRunning' = (devRunning \/ (call.name = "go" /\ acked))
                /\ IF ~w.raised /\ ~a.raised
                   THEN /\ UNCHANGED ctlVars
                        /\ IF call.name = "go" THEN Return("ok", <<>>)
                           ELSE /\ pc' = IF call.name = "read" THEN "len" ELSE "wdata"
                                /\ UNCHANGED result
                   ELSE Fail(retry_wrapper(Ctl), Restart("addr"))
    /\ UNCHANGED <<linkVars, memoVars, call, localVars, histVars,
                   mem, rx, ckVars, wire, progress, cliVars>>

\* what the device sends after the length frame of a read: ACK and the n bytes
\* at the latched address, ACK and fewer bytes, or no ACK
ReadStreams(sent, complete) ==
    LET n == sent[1] + 1
        valid == complete /\ ValidScalarFrame(sent) /\ devAddr + n <= MemSize
    IN IF valid /\ ~devRunning
       THEN {<<ACK>> \o MemRead(mem, devAddr, n),
             <<ACK>> \o MemRead(mem, devAddr, n - 1),
             <<NACK>>, <<0>>, <<>>}
       ELSE Answers(FALSE, devRunning)

\* the loop of read/write after a chunk: the next chunk, or the call returns
NextChunk(value) ==
    /\ size_remain' = size_remain - part_size
    /\ progress' = progress_update(progress,
                        IF size_remain - part_size = 0 THEN 100
                        ELSE percent(size - (size_remain - part_size), size))
    /\ IF size_remain - part_size = 0
       THEN /\ Return("ok", value)
            /\ UNCHANGED <<tries, cmdTries, flushes, fails>>
       ELSE /\ pc' = "cmd" /\ UNCHANGED result
            /\ FreshCtl

\* the rest of one attempt of _read_memory_chunk: [size - 1, checksum] goes out
\* through port.write unchecked, then the ACK, then size data bytes
_read_memory_chunk ==
    /\ pc = "len"
    /\ LET frame == to_bytes(part_size - 1, 1) \o _checksum_int(part_size - 1)
       IN \E done \in WriteResults(frame) :
          \E stream \in ReadStreams(Take(frame, done), done = Len(frame)) :
             LET a == _check_acknowledge(stream)
                 r == _serial_read(a.rest, part_size)
             IN /\ tx' = [step |-> "len", frames |-> <<Take(frame, done)>>,
                          awaited |-> TRUE]
                /\ IF ~a.raised /\ ~r.raised
                   THEN /\ data' = data \o r.data
                        /\ NextChunk(data \o r.data)
                        /\ UNCHANGED exhausted
                   ELSE /\ Fail(retry_wrapper(Ctl), Restart("len"))
                        /\ UNCHANGED <<data, size_remain, progress>>
    /\ UNCHANGED <<linkVars, memoVars, call, address, size, parameters,
                   histVars, devVars, rx, ckVars, wire, cliVars>>

\* the three _serial_write calls of a write attempt: each part goes out only
\* if the one before was accepted whole
WriteParts(parts, dones) ==
    LET w1 == _serial_write(parts[1], dones[1])
        w2 == _serial_write(parts[2], dones[2])
        w3 == _serial_write(parts[3], dones[3])
    IN IF w1.raised THEN [sent |-> <<w1.sent>>, raised |-> TRUE]
       ELSE IF w2.raised THEN [sent |-> <<w1.sent, w2.sent>>, raised |-> TRUE]
       ELSE [sent |-> <<w1.sent, w2.sent, w3.sent>>, raised |-> w3.raised]

\* a data frame whose checksum leaves the length byte out of the fold
WriteFrame_SeedZero(bytes) ==
    << to_bytes(Len(bytes) - 1, 1), bytes, _checksum_seq(bytes, 0) >>

\* the parts of the data frame of a write: [len - 1], the chunk, the checksum
\* of the chunk seeded with len - 1
WriteFrame(bytes) ==
    << to_bytes(Len(bytes) - 1, 1), bytes, _checksum_seq(bytes, Len(bytes) - 1) >>

\* what the device does with the data frame of a write: it stores the chunk at
\* the latched address and answers ACK, stores it and the ACK is lost, or
\* stores nothing and answers NACK, another byte or nothing
WriteAnswers(w) ==
    LET frame == w.sent[1] \o w.sent[2] \o w.sent[3]
        valid == /\ ValidSeqFrame(frame)
                 /\ Len(w.sent[2]) = w.sent[1][1] + 1
                 /\ devAddr + Len(w.sent[2]) <= MemSize
    IN IF ~w.raised /\ ~devRunning /\ valid
       THEN {[answer |-> <<ACK>>, stored |-> TRUE], [answer |-> <<>>, stored |-> TRUE],
             [answer |-> <<NACK>>, stored |-> FALSE], [answer |-> <<0>>, stored |-> FALSE],
             [answer |-> <<>>, stored |-> FALSE]}
       ELSE {[answer |-> r, stored |-> FALSE] : r \in Answers(FALSE, devRunning)}

\* how far port.write gets through the three parts: short in the first, the
\* second or the third, or all accepted
WriteDones(parts) ==
    {<<Len(parts[1]) - 1, 0, 0>>,
     <<Len(parts[1]), Len(parts[2]) - 1, 0>>,
     <<Len(parts[1]), Len(parts[2]), Len(parts[3]) - 1>>,
     <<Len(parts[1]), Len(parts[2]), Len(parts[3])>>}

\* the rest of one attempt of _write_memory_chunk
_write_memory_chunk ==
    /\ pc = "wdata"
    /\ \E dones \in WriteDones(WriteFrame(chunk)) :
          LET w == WriteParts(WriteFrame(chunk), dones)
          IN \E dev \in WriteAnswers(w) :
             LET a == _check_acknowledge(dev.answer)
             IN /\ tx' = [step |-> "wdata", frames |-> w.sent, awaited |-> ~w.raised]
                /\ mem' = IF dev.stored THEN MemWrite(mem, devAddr, w.sent[2]) ELSE mem
                /\ IF ~w.raised /\ ~a.raised
                   THEN /\ NextChunk(<<>>)
                        /\ UNCHANGED exhausted
                   ELSE /\ Fail(retry_wrapper(Ctl), Restart("wdata"))
                        /\ UNCHANGED <<size_remain, progress>>
    /\ UNCHANGED <<linkVars, memoVars, call, address, size, data, parameters,
                   histVars, devAddr, devRunning, rx, ckVars, wire, cliVars>>

\* the sectors an erase parameter frame names: all of them for FF FF, else the
\* count-minus-one in 2 bytes and that many 2-byte indices
ErasedBy(frame) ==
    IF SubSeq(frame, 1, 2) = <<255, 255>> THEN AllSectors
    ELSE {from_bytes(SubSeq(frame, 2 * k + 1, 2 * k + 2)) :
            k \in 1..(from_bytes(SubSeq(frame, 1, 2)) + 1)}
ValidErase(frame) ==
    /\ Len(frame) >= 3 /\ ValidSeqFrame(frame)
    /\ \/ frame = <<255, 255, 0>>
       \/ /\ Len(frame) = 2 + 2 * (from_bytes(SubSeq(frame, 1, 2)) + 1) + 1
          /\ ErasedBy(frame) \subseteq AllSectors

\* one attempt of _perform_erase, up to the wait: the parameters are written
\* and the port's timeout is widened to 5 minutes
_perform_erase ==
    /\ pc = "params"
    /\ \E done \in WriteResults(parameters) :
        LET w == _serial_write(parameters, done)
        IN /\ tx' = [step |-> "params", frames |-> <<w.sent>>, awaited |-> ~w.raised]
           /\ IF w.raised
              THEN /\ Fail(retry_wrapper(Ctl), Restart("params"))
                   /\ UNCHANGED timeout
              ELSE /\ timeout' = ERASE_TIMEOUT
                   /\ pc' = "erasewait"
                   /\ UNCHANGED <<ctlVars, result>>
    /\ UNCHANGED <<port, memoVars, call, localVars, histVars,
                   devVars, rx, ckVars, wire, progress, cliVars>>

\* a restore written after the wait instead of in a finally clause: it is
\* skipped when _check_acknowledge raises
finally_timeout_AfterWait(raised) == IF raised THEN ERASE_TIMEOUT ELSE DEFAULT_TIMEOUT

\* the finally clause of _perform_erase: the timeout the port has after the
\* wait, whether _check_acknowledge raised or not
finally_timeout(raised) == DEFAULT_TIMEOUT

\* the wait of _perform_erase: the ACK is read, and in the finally clause the
\* timeout goes back to the default; the device erases what it acknowledges
_perform_erase_wait ==
    /\ pc = "erasewait"
    /\ \E answer \in Answers(ValidErase(tx.frames[1]), devRunning) :
        LET a == _check_acknowledge(answer)
        IN /\ mem' = IF answer = <<ACK>> THEN MemErase(mem, ErasedBy(tx.frames[1]))
                     ELSE mem
           /\ timeout' = finally_timeout(a.raised)
           /\ IF ~a.raised
              THEN /\ Return("ok", <<>>)
                   /\ progress' = progress_update(progress, 100)
                   /\ UNCHANGED ctlVars
              ELSE /\ Fail(retry_wrapper(Ctl), Restart("erasewait"))
                   /\ UNCHANGED progress
    /\ tx' = [tx EXCEPT !.step = "erasewait"]
    /\ UNCHANGED <<port, memoVars, call, localVars, histVars,
                   devAddr, devRunning, rx, ckVars, wire, cliVars>>

\* the prefixes of a reply that arrive when the device stops short
Prefixes(reply) == {SubSeq(reply, 1, k) : k \in 0..(Len(reply) - 1)}
\* the replies of the device to a query: the whole reply, a reply cut short, or
\* the reply with NACK in place of the closing ACK
Replies(body) ==
    IF devRunning THEN {<<>>}
    ELSE {body \o <<ACK>>, body \o <<NACK>>} \cup Prefixes(body \o <<ACK>>)

\* the rest of one attempt of the id property: the length byte, length + 1
\* bytes of product id, the ACK; then the memo is set
id_reply ==
    /\ pc = "idresp"
    /\ \E stream \in Replies(to_bytes(Len(DEV_ID) - 1, 1) \o DEV_ID) :
        LET r1 == _serial_read(stream, 1)
            n == from_bytes(r1.data) + 1
            r2 == _serial_read(r1.rest, n)
            a == _check_acknowledge(r2.rest)
        IN /\ rx' = [step |-> "idresp", stream |-> stream, taken |-> r2.data]
           /\ IF ~r1.raised /\ ~r2.raised /\ ~a.raised
              THEN /\ _id' = Some(r2.data)
                   /\ Return("ok", r2.data)
                   /\ UNCHANGED ctlVars
              ELSE /\ Fail(retry_wrapper(Ctl), Restart("idresp"))
                   /\ UNCHANGED _id
    /\ tx' = [step |-> "idresp", frames |-> <<>>, awaited |-> TRUE]
    /\ UNCHANGED <<linkVars, _version, _commands, _read_protection_status, call, localVars, histVars, devVars, ckVars, wire, progress, cliVars>>

\* the rest of one attempt of the version property: the size byte, the version
\* byte, size command bytes, the ACK; then both memos are set
version_reply ==
    /\ pc = "verresp"
    /\ \E list \in DEV_COMMAND_LISTS :
       \E stream \in Replies(to_bytes(Len(list), 1) \o to_bytes(DEV_VERSION, 1) \o list) :
        LET r1 == _serial_read(stream, 1)
            n == from_bytes(r1.data)
            r2 == _serial_read(r1.rest, 1)
            r3 == _serial_read(r2.rest, n)
            a == _check_acknowledge(r3.rest)
        IN /\ rx' = [step |-> "verresp", stream |-> stream, taken |-> r3.data]
           /\ IF ~r1.raised /\ ~r2.raised /\ ~r3.raised /\ ~a.raised
              THEN /\ _version' = Some(r2.data) /\ _commands' = Some(r3.data)
                   /\ Return("ok", IF call.name = "commands" THEN r3.data ELSE r2.data)
                   /\ UNCHANGED ctlVars
              ELSE /\ Fail(retry_wrapper(Ctl), Restart("verresp"))
                   /\ UNCHANGED <<_version, _commands>>
    /\ tx' = [step |-> "verresp", frames |-> <<>>, awaited |-> TRUE]
    /\ UNCHANGED <<linkVars, _id, _read_protection_status, call, localVars,
                   histVars, devVars, ckVars, wire, progress, cliVars>>

\* the rest of one attempt of the read_protection_status property: 3 bytes of
\* which the last 2 are kept, the ACK; then the memo is set
rps_reply ==
    /\ pc = "rpsresp"
    /\ \E stream \in Replies(to_bytes(DEV_VERSION, 1) \o DEV_OPTION_BYTES) :
        LET r == _serial_read(stream, 3)
            a == _check_acknowledge(r.rest)
        IN /\ rx' = [step |-> "rpsresp", stream |-> stream, taken |-> Drop(r.data, 1)]
           /\ IF ~r.raised /\ ~a.raised
              THEN /\ _read_protection_status' = Some(Drop(r.data, 1))
                   /\ Return("ok", Drop(r.data, 1))
                   /\ UNCHANGED ctlVars
              ELSE /\ Fail(retry_wrapper(Ctl), Restart("rpsresp"))
                   /\ UNCHANGED _read_protection_status
    /\ tx' = [step |-> "rpsresp", frames |-> <<>>, awaited |-> TRUE]
    /\ UNCHANGED <<linkVars, _id, _version, _commands, call, localVars,
                   histVars, devVars, ckVars, wire, progress, cliVars>>

(***************************************************************************)
(* The driver against the device                                           *)
(***************************************************************************)
Next ==
    \/ Open \/ _uart_dfu_init \/ __exit__
    \/ id \/ version \/ commands \/ read_protection_status
    \/ go \/ read \/ write \/ erase
    \/ _send_command \/ _set_address
    \/ _read_memory_chunk \/ _write_memory_chunk
    \/ _perform_erase \/ _perform_erase_wait
    \/ id_reply \/ version_reply \/ rps_reply

Spec == Init /\ [][Next]_vars

\* the steps of a call in progress and of the constructor, the rest of a
\* write attempt aside: each ends once it has begun (every port.read returns
\* within the timeout, every port.write returns)
Steps ==
    \/ _uart_dfu_init
    \/ _send_command \/ _set_address
    \/ _read_memory_chunk
    \/ _perform_erase \/ _perform_erase_wait
    \/ id_reply \/ version_reply \/ rps_reply

\* the same for the rest of a write attempt, which can be taken exactly when
\* pc = "wdata": weak fairness of _write_memory_chunk with its enabling
\* condition written out
Fair_write_memory_chunk ==
    []<>(pc # "wdata") \/ []<><<_write_memory_chunk>>_vars

\* the driver used for MaxLiveOps public calls, when every step that has
\* begun also ends
NextLive ==
    \/ Open \/ _uart_dfu_init \/ __exit__
    \/ (opsDone < MaxLiveOps /\ id)
    \/ (opsDone < MaxLiveOps /\ version)
    \/ (opsDone < MaxLiveOps /\ commands)
    \/ (opsDone < MaxLiveOps /\ read_protection_status)
    \/ (opsDone < MaxLiveOps /\ go)
    \/ (opsDone < MaxLiveOps /\ read)
    \/ (opsDone < MaxLiveOps /\ write)
    \/ (opsDone < MaxLiveOps /\ erase)
    \/ _send_command \/ _set_address
    \/ _read_memory_chunk \/ _write_memory_chunk
    \/ _perform_erase \/ _perform_erase_wait
    \/ id_reply \/ version_reply \/ rps_reply

SpecLive ==
    Init /\ [][NextLive]_vars /\ WF_vars(Steps) /\ Fair_write_memory_chunk

(***************************************************************************)
(* The command line: DfuCommandHandler and its progress bar threads        *)
(***************************************************************************)
\* --address as typed: the mapped start of the device's flash, and 0
CliAddresses == { <<"0", "x", "1", "0", "0">>, <<"0">> }
\* --size as typed, or left out
CliEraseSizes == {None, Some(<<"0">>), Some(<<"0", "x", "1", "0", "0">>)}
CliDumpSizes == {None, Some(<<"1">>), Some(<<"2", "5", "7">>)}
\* the firmware file's content
Firmwares == {Pattern(ACK, 1), Pattern(ACK, MaxSize)}

EraseCommands ==
    {[NoHandler EXCEPT !.name = "erase", !.address = a, !.size = n, !.memory_map = m] :
        a \in CliAddresses, n \in CliEraseSizes, m \in MemoryMaps}
DumpCommands ==
    {[NoHandler EXCEPT !.name = "dump", !.address = a, !.size = n] :
        a \in CliAddresses, n \in CliDumpSizes}
LoadCommands ==
    {[NoHandler EXCEPT !.name = "load", !.address = a, !.firmware = f, !.erase = e,
                       !.memory_map = m, !.run = r] :
        a \in CliAddresses, f \in Firmwares, e \in BOOLEAN, m \in MemoryMaps,
        r \in BOOLEAN}

\* ProgressBarThread(endless): the thread is started by its constructor
ProgressBarThread(endless) ==
    [alive |-> TRUE, endless |-> endless, aborted |-> FALSE,
     at |-> "update", rendered |-> <<>>]

\* the thread's _progress: None or 0 from the constructor, then what update()
\* was last called with, by the driver's callback or by _abort
_progress ==
    IF bar_thread.aborted THEN Some(0 - 1)
    ELSE IF progress # <<>> THEN Some(progress[Len(progress)])
    ELSE IF bar_thread.endless THEN None
    ELSE Some(0)

\* the handler is where it calls the driver, and that call has ended
CallStages == {"erase", "dump", "write", "read", "go"}
CallEnded == handler.stage \in CallStages /\ pc = "ready" /\ result.op = call.name

\* an argument of the driver call raised before the call was made
NoCallMade ==
    /\ progress' = <<>>
    /\ UNCHANGED <<pc, call, localVars, ctlVars, tx, rx, result, histVars>>

\* the statements of a handler from one progress bar to the driver call it
\* covers: the thread is started, the arguments are converted with int(.., 0)
\* (a TypeError for a --size left out), the driver method is called
Stage(h, stage) ==
    CASE stage = "erase" /\ h.name = "erase" ->
            /\ bar_thread' = ProgressBarThread(TRUE)
            /\ IF h.size = None
               THEN handler' = [h EXCEPT !.stage = "raised"] /\ NoCallMade
               ELSE /\ handler' = [h EXCEPT !.stage = stage]
                    /\ erase_call([address |-> Some(int_auto(h.address)),
                                   size |-> Some(int_auto(Val(h.size))),
                                   memory_map |-> h.memory_map])
      [] stage = "erase" /\ h.name = "load" ->
            /\ bar_thread' = ProgressBarThread(TRUE)
            /\ handler' = [h EXCEPT !.stage = stage]
            /\ erase_call([address |-> Some(int_auto(h.address)),
                           size |-> IF TruthySeq(h.memory_map)
                                    THEN Some(Len(h.firmware)) ELSE None,
                           memory_map |-> IF TruthySeq(h.memory_map)
                                          THEN h.memory_map ELSE None])
      [] stage = "dump" ->
            /\ bar_thread' = ProgressBarThread(FALSE)
            /\ IF h.size = None
               THEN handler' = [h EXCEPT !.stage = "raised"] /\ NoCallMade
               ELSE /\ handler' = [h EXCEPT !.stage = stage]
                    /\ read_call([address |-> Some(int_auto(h.address)),
                                  size |-> Some(int_auto(Val(h.size))),
                                  memory_map |-> None])
      [] stage = "write" ->
            /\ bar_thread' = ProgressBarThread(FALSE)
            /\ handler' = [h EXCEPT !.stage = stage]
            /\ write_call(int_auto(h.address), h.firmware)
      [] stage = "read" ->
            /\ bar_thread' = ProgressBarThread(FALSE)
            /\ handler' = [h EXCEPT !.stage = stage]
            /\ read_call([address |-> Some(int_auto(h.address)),
                          size |-> Some(Len(h.firmware)), memory_map |-> None])
      [] stage = "go" ->
            /\ bar_thread' = NoThread
            /\ handler' = [h EXCEPT !.stage = stage]
            /\ go_call(int_auto(h.address))
      [] stage = "returned" ->
            /\ handler' = [h EXCEPT !.stage = stage]
            /\ UNCHANGED <<bar_thread, progress, pc, call, localVars, ctlVars, tx, rx,
                           result, histVars>>

\* args.func(dfu, args) in the with-block: one handler per run of the program
CanHandle == pc = "ready" /\ handler.stage = "none"

\* DfuCommandHandler.erase
handler_erase ==
    /\ CanHandle
    /\ \E h \in EraseCommands : Stage(h, "erase")
    /\ UNCHANGED <<linkVars, memoVars, devVars, ckVars, wire>>

\* DfuCommandHandler.dump
handler_dump ==
    /\ CanHandle
    /\ \E h \in DumpCommands : Stage(h, "dump")
    /\ UNCHANGED <<linkVars, memoVars, devVars, ckVars, wire>>

\* DfuCommandHandler.load: the erase if --erase was given, else the write
handler_load ==
    /\ CanHandle
    /\ \E h \in LoadCommands : Stage(h, IF h.erase THEN "erase" ELSE "write")
    /\ UNCHANGED <<linkVars, memoVars, devVars, ckVars, wire>>

\* what a handler does after a driver call that returned
AfterStage(h) ==
    CASE h.name = "load" /\ h.stage = "erase" -> "write"
      [] h.name = "load" /\ h.stage = "write" -> "read"
      [] h.name = "load" /\ h.stage = "read" -> IF h.run THEN "go" ELSE "returned"
      [] OTHER -> "returned"

\* except DfuException: self._abort(bar_thread) sets the thread's progress to
\* -1; the join and the raise follow
_abort ==
    /\ CallEnded /\ result.status = "DfuException"
    /\ handler' = [handler EXCEPT !.stage = "aborted"]
    /\ bar_thread' = IF bar_thread.alive THEN [bar_thread EXCEPT !.aborted = TRUE]
                     ELSE bar_thread
    /\ UNCHANGED <<linkVars, memoVars, pc, call, localVars, ctlVars, tx, rx, result,
                   histVars, progress, devVars, ckVars, wire>>

\* an exception that is not a DfuException passes the except clause: the
\* handler is left with it
propagate ==
    /\ CallEnded /\ result.status \notin {"ok", "DfuException"}
    /\ handler' = [handler EXCEPT !.stage = "raised"]
    /\ UNCHANGED <<linkVars, memoVars, pc, call, localVars, ctlVars, tx, rx, result,
                   histVars, progress, bar_thread, devVars, ckVars, wire>>

\* bar_thread.join() returns once the thread has ended: after a call that
\* returned the handler goes on, after _abort it re-raises
join ==
    /\ ~bar_thread.alive
    /\ \/ /\ CallEnded /\ result.status = "ok"
          /\ Stage(handler, AfterStage(handler))
       \/ /\ handler.stage = "aborted"
          /\ handler' = [handler EXCEPT !.stage = "raised"]
          /\ UNCHANGED <<bar_thread, progress, pc, call, localVars, ctlVars, tx, rx,
                         result, histVars>>
    /\ UNCHANGED <<linkVars, memoVars, devVars, ckVars, wire>>

\* ProgressBarThread._run: the loop draws the bar and ends when it sees 100
\* or -1
_run ==
    /\ bar_thread.alive
    /\ _progress \in {Some(100), Some(0 - 1)}
    /\ bar_thread' = [bar_thread EXCEPT !.alive = FALSE]
    /\ UNCHANGED <<linkVars, memoVars, pc, call, localVars, ctlVars, tx, rx, result,
                   histVars, progress, handler, devVars, ckVars, wire>>

NextCli ==
    \/ Open \/ _uart_dfu_init \/ __exit__
    \/ handler_erase \/ handler_dump \/ handler_load
    \/ _abort \/ propagate \/ join \/ _run
    \/ _send_command \/ _set_address
    \/ _read_memory_chunk \/ _write_memory_chunk
    \/ _perform_erase \/ _perform_erase_wait

SpecCli == Init /\ [][NextCli]_vars

RECURSIVE BitAnd(_, _)
\* the bitwise and of two non-negative ints
BitAnd(a, b) ==
    IF a = 0 \/ b = 0 THEN 0
    ELSE ((a % 2) * (b % 2)) + 2 * BitAnd(a \div 2, b \div 2)

\* the device's flash when load is run without --erase: programming only
\* clears bits, so a cell that was not erased holds the and of what it held
\* and what was written, although the write was acknowledged; seen here on the
\* first cell of the firmware, once the write has returned
flash_fault ==
    /\ handler.name = "load" /\ handler.stage = "write" /\ ~handler.erase
    /\ CallEnded /\ result.status = "ok"
    /\ LET a == int_auto(handler.address)
       IN /\ a \in MemAddr /\ mem[a] = handler.firmware[1]
          /\ mem' = [mem EXCEPT ![a] = BitAnd(InitMem[a], handler.firmware[1])]
    /\ UNCHANGED <<hostVars, devAddr, devRunning, ckVars, wire>>

\* the command-line program against a device whose flash may not have been
\* erased
NextFlash == NextCli \/ flash_fault

SpecFlash == Init /\ [][NextFlash]_vars

(***************************************************************************)
(* ProgressBarThread: the display loop statement by statement              *)
(***************************************************************************)
\* the values the operation's callback reports
Percents == {0, 50, 100}
\* the most bars one thread draws
MaxRenders == 4

\* a thread that was just constructed, with no operation begun
InitBar ==
    /\ port = "open" /\ timeout = DEFAULT_TIMEOUT
    /\ _id = None /\ _version = None /\ _commands = None
    /\ _read_protection_status = None
    /\ pc = "ready" /\ call = NoCall
    /\ address = 0 /\ size = 0 /\ size_remain = 0 /\ data = <<>> /\ parameters = <<>>
    /\ tries = 0 /\ cmdTries = 0 /\ flushes = 0 /\ fails = 0 /\ exhausted = FALSE
    /\ tx = NoTx /\ rx = NoRx /\ result = NoResult /\ lastWrite = None /\ opsDone = 0
    /\ lastErase = FALSE /\ progress = <<>>
    /\ handler = NoHandler
    /\ bar_thread \in {ProgressBarThread(TRUE), ProgressBarThread(FALSE)}
    /\ mem = InitMem /\ devAddr = 0 /\ devRunning = FALSE
    /\ ckIn = NoCk /\ ckOut = None
    /\ wire = NoWire

\* the value has ended the operation: 100 or -1
Terminal(p) == p \in {Some(100), Some(0 - 1)}

\* ProgressBarThread.update(p), called by the operation through its
\* progress_update callback: the values rise up to 100
thread_update ==
    /\ ~Terminal(_progress)
    /\ \E p \in Percents :
        /\ \A i \in 1..Len(progress) : progress[i] < p
        /\ progress' = progress_update(progress, p)
    /\ UNCHANGED <<linkVars, memoVars, pc, call, localVars, ctlVars, tx, rx, result,
                   histVars, cliVars, devVars, ckVars, wire>>

\* _abort(bar_thread): bar_thread.update(-1) after the operation raised
thread_abort ==
    /\ ~Terminal(_progress)
    /\ bar_thread' = [bar_thread EXCEPT !.aborted = TRUE]
    /\ UNCHANGED <<linkVars, memoVars, pc, call, localVars, ctlVars, tx, rx, result,
                   histVars, progress, handler, devVars, ckVars, wire>>

\* _run: self._bar.update(self._progress) reads the value and draws it
run_update ==
    /\ bar_thread.alive /\ bar_thread.at = "update"
    /\ Len(bar_thread.rendered) < MaxRenders
    /\ bar_thread' = [bar_thread EXCEPT !.rendered = Append(@, _progress),
                                        !.at = "is_done"]
    /\ UNCHANGED <<linkVars, memoVars, pc, call, localVars, ctlVars, tx, rx, result,
                   histVars, progress, handler, devVars, ckVars, wire>>

\* _run: `self._progress == 100` reads the value again; the loop breaks on 100
run_is_done ==
    /\ bar_thread.alive /\ bar_thread.at = "is_done"
    /\ bar_thread' = IF _progress = Some(100)
                     THEN [bar_thread EXCEPT !.alive = FALSE, !.at = "ended"]
                     ELSE [bar_thread EXCEPT !.at = "is_failed"]
    /\ UNCHANGED <<linkVars, memoVars, pc, call, localVars, ctlVars, tx, rx, result,
                   histVars, progress, handler, devVars, ckVars, wire>>

\* _run: `self._progress == -1` reads the value once more; the loop breaks on
\* -1, else it sleeps and goes round
run_is_failed ==
    /\ bar_thread.alive /\ bar_thread.at = "is_failed"
    /\ bar_thread' = IF _progress = Some(0 - 1)
                     THEN [bar_thread EXCEPT !.alive = FALSE, !.at = "ended"]
                     ELSE [bar_thread EXCEPT !.at = "update"]
    /\ UNCHANGED <<linkVars, memoVars, pc, call, localVars, ctlVars, tx, rx, result,
                   histVars, progress, handler, devVars, ckVars, wire>>

NextBar ==
    \/ thread_update \/ thread_abort
    \/ run_update \/ run_is_done \/ run_is_failed

SpecBar == InitBar /\ [][NextBar]_vars

(***************************************************************************)
(* The legacy single-file module stm32_uart_dfu.py: read and erase         *)
(***************************************************************************)
\* the driver after its constructor has succeeded
InitLegacy ==
    /\ port = "open" /\ timeout = DEFAULT_TIMEOUT
    /\ _id = None /\ _version = None /\ _commands = None
    /\ _read_protection_status = None
    /\ pc = "ready" /\ call = NoCall
    /\ address = 0 /\ size = 0 /\ size_remain = 0 /\ data = <<>> /\ parameters = <<>>
    /\ tries = 0 /\ cmdTries = 0 /\ flushes = 0 /\ fails = 0 /\ exhausted = FALSE
    /\ tx = NoTx /\ rx = NoRx /\ result = NoResult /\ lastWrite = None /\ opsDone = 0
    /\ lastErase = FALSE /\ progress = <<>>
    /\ handler = NoHandler /\ bar_thread = NoThread
    /\ mem = InitMem /\ devAddr = 0 /\ devRunning = FALSE
    /\ ckIn = NoCk /\ ckOut = None
    /\ wire = NoWire

\* the arguments erase is called with: address and size as the strings the
\* lookup converts with int(.., 0)
LegacyEraseArgs ==
    {[address |-> Some(a), size |-> n, memory_map |-> m] :
        a \in CliAddresses,
        n \in {None, Some(<<"0", "x", "1", "0", "0">>), Some(<<"3", "0", "0">>)},
        m \in MemoryMaps}

\* retry_wrapper of the legacy _retry after a DfuException in the function it
\* wraps: exc_call() calls _serial_flush without self, and the TypeError of
\* that call leaves the wrapper
legacy_retry_wrapper == "TypeError"

\* read(address, size, progress_update)
legacy_read ==
    /\ CanCall
    /\ \E a \in Addresses, n \in Sizes :
        Begin("read", [NoArgs EXCEPT !.address = Some(a), !.size = Some(n)],
              [NoLocals EXCEPT !.address = a, !.size = n, !.progress = FirstReport(n)],
              "run", <<>>)
    /\ UNCHANGED <<linkVars, memoVars, devVars, ckVars, wire, cliVars>>

\* erase(address, size, memory_map, progress_update): the extended erase
\* command is sent first
legacy_erase ==
    /\ CanCall
    /\ \E args \in LegacyEraseArgs :
        Begin("erase", [NoArgs EXCEPT !.address = args.address, !.size = args.size,
                                      !.memory_map = args.memory_map],
              NoLocals, "run", <<>>)
    /\ UNCHANGED <<linkVars, memoVars, devVars, ckVars, wire, cliVars>>

\* _send_command: [command, checksum], then the ACK
legacy_send_command ==
    /\ pc = "cmd"
    /\ LET frame == ScalarFrame(CommandOf(call.name))
       IN \E done \in WriteResults(frame) :
          LET w == _serial_write(frame, done)
          IN \E answer \in Answers(~w.raised /\ ValidScalarFrame(w.sent), devRunning) :
             LET a == _check_acknowledge(answer)
             IN /\ tx' = [step |-> "cmd", frames |-> <<w.sent>>, awaited |-> ~w.raised]
                /\ IF ~w.raised /\ ~a.raised
                   THEN /\ pc' = IF call.name = "erase" THEN "sectors" ELSE "addr"
                        /\ UNCHANGED result
                   ELSE Return(legacy_retry_wrapper, <<>>)
    /\ UNCHANGED <<linkVars, memoVars, call, localVars, ctlVars, rx, histVars,
                   progress, cliVars, devVars, ckVars, wire>>

\* _set_address(offset)
legacy_set_address ==
    /\ pc = "addr"
    /\ LET frame == to_bytes(offset, 4) \o _checksum_seq(to_bytes(offset, 4), 0)
       IN \E done \in WriteResults(frame) :
          LET w == _serial_write(frame, done)
              valid == /\ ~w.raised /\ ValidSeqFrame(w.sent)
                       /\ from_bytes(SubSeq(w.sent, 1, 4)) \in MemAddr
          IN \E answer \in Answers(valid, devRunning) :
             LET a == _check_acknowledge(answer)
             IN /\ tx' = [step |-> "addr", frames |-> <<w.sent>>, awaited |-> ~w.raised]
                /\ devAddr' = IF valid /\ answer = <<ACK>>
                              THEN from_bytes(SubSeq(w.sent, 1, 4)) ELSE devAddr
                /\ IF ~w.raised /\ ~a.raised
                   THEN pc' = "len" /\ UNCHANGED result
                   ELSE Return(legacy_retry_wrapper, <<>>)
    /\ UNCHANGED <<linkVars, memoVars, call, localVars, ctlVars, rx, histVars,
                   progress, cliVars, mem, devRunning, ckVars, wire>>

\* the size read passes to _read_memory_chunk: the size of the whole read
legacy_requested == size

\* the rest of _read_memory_chunk(offset, size): port.write([size - 1,
\* checksum]) raises ValueError for a value above 255, else the ACK and size
\* data bytes; then size_remain -= part_size
legacy_read_memory_chunk ==
    /\ pc = "len"
    /\ IF legacy_requested - 1 > 255
       THEN /\ tx' = [step |-> "len", frames |-> <<>>, awaited |-> FALSE]
            /\ Return("ValueError", <<>>)
            /\ UNCHANGED <<data, size_remain, progress, ctlVars>>
       ELSE LET frame == ScalarFrame(legacy_requested - 1)
            IN \E done \in WriteResults(frame) :
               \E stream \in ReadStreams(Take(frame, done), done = Len(frame)) :
                  LET a == _check_acknowledge(stream)
                      r == _serial_read(a.rest, legacy_requested)
                  IN /\ tx' = [step |-> "len", frames |-> <<Take(frame, done)>>,
                               awaited |-> TRUE]
                     /\ IF ~a.raised /\ ~r.raised
                        THEN /\ data' = data \o r.data
                             /\ NextChunk(data \o r.data)
                             /\ UNCHANGED exhausted
                        ELSE /\ Return(legacy_retry_wrapper, <<>>)
                             /\ UNCHANGED <<data, size_remain, progress, ctlVars>>
    /\ UNCHANGED <<linkVars, memoVars, call, address, size, parameters,
                   histVars, devVars, rx, ckVars, wire, cliVars>>

\* erase after the command: the parameters. The loop over the map keeps the
\* last sector that holds the address and breaks at the first that holds the
\* end; without a break the boundary error is raised, and a start that was
\* never assigned is an UnboundLocalError
legacy_erase_sectors ==
    /\ pc = "sectors"
    /\ LET map == Val(call.memory_map)
           a == int_auto(Val(call.address))
           n == int_auto(Val(call.size))
           ends == EndSectors(map, a, n)
           end == First(ends)
           starts == {i \in StartSectors(map, a) : i <= end}
           start == CHOOSE i \in starts : \A j \in starts : j <= i
           status ==
               IF ~TruthySeq(call.size) THEN "mass"
               ELSE IF ~TruthySeq(call.memory_map) THEN "AttributeError"
               ELSE IF ends = {} THEN "AttributeError"
               ELSE IF starts = {} THEN "UnboundLocalError"
               ELSE "range"
       IN IF status \in {"mass", "range"}
          THEN /\ parameters' = IF status = "mass" THEN MassParameters
                                ELSE RangeParameters(start - 1, end - 1)
               /\ pc' = "params" /\ UNCHANGED result
          ELSE /\ Return(status, <<>>)
               /\ UNCHANGED parameters
    /\ UNCHANGED <<linkVars, memoVars, call, address, size, size_remain, data,
                   ctlVars, tx, rx, histVars, progress, cliVars, devVars, ckVars, wire>>

\* an iteration of `for retry in range(0, _RETRIES)` up to the wait: the
\* parameters are written (a short write raises through the missing
\* _ERROR_MESSAGES) and the timeout is set to 5 minutes
legacy_erase_write ==
    /\ pc = "params"
    /\ \E done \in WriteResults(parameters) :
        /\ tx' = [step |-> "params", frames |-> <<Take(parameters, done)>>,
                  awaited |-> done = Len(parameters)]
        /\ IF done # Len(parameters)
           THEN Return("AttributeError", <<>>) /\ UNCHANGED timeout
           ELSE /\ timeout' = ERASE_TIMEOUT
                /\ pc' = "erasewait" /\ UNCHANGED result
    /\ UNCHANGED <<port, memoVars, call, localVars, ctlVars, rx, histVars,
                   progress, cliVars, devVars, ckVars, wire>>

\* the statement after an acknowledged iteration of the loop, which has no
\* break: the next iteration, or the else clause that raises after the last
legacy_loop(n) == IF n >= _RETRIES THEN "DfuException" ELSE "again"

\* the timeout after the wait: the restore follows _check_acknowledge and is
\* skipped when that raises
legacy_restore(raised) == IF raised THEN ERASE_TIMEOUT ELSE DEFAULT_TIMEOUT

\* the rest of the iteration: _check_acknowledge, the timeout back to the
\* default, and the loop goes on; progress_update(100) after the loop is
\* never reached
legacy_erase_wait ==
    /\ pc = "erasewait"
    /\ \E answer \in Answers(ValidErase(tx.frames[1]), devRunning) :
        LET a == _check_acknowledge(answer)
            next == legacy_loop(tries + 1)
        IN /\ mem' = IF answer = <<ACK>> THEN MemErase(mem, ErasedBy(tx.frames[1]))
                     ELSE mem
           /\ timeout' = legacy_restore(a.raised)
           /\ IF a.raised
              THEN /\ Return("DfuException", <<>>)
                   /\ UNCHANGED <<tries, progress>>
              ELSE /\ tries' = tries + 1
                   /\ IF next = "again"
                      THEN pc' = "params" /\ UNCHANGED <<result, progress>>
                      ELSE Return(next, <<>>) /\ UNCHANGED progress
    /\ tx' = [tx EXCEPT !.step = "erasewait"]
    /\ UNCHANGED <<port, memoVars, call, localVars, cmdTries, flushes, fails,
                   exhausted, rx, histVars, cliVars, devAddr, devRunning, ckVars, wire>>

NextLegacy ==
    \/ legacy_read \/ legacy_erase
    \/ legacy_send_command \/ legacy_set_address \/ legacy_read_memory_chunk
    \/ legacy_erase_sectors \/ legacy_erase_write \/ legacy_erase_wait

SpecLegacy == InitLegacy /\ [][NextLegacy]_vars

(***************************************************************************)
(* _checksum on its own                                                    *)
(***************************************************************************)
\* the bytes the sequences are made of, and the seeds
CkBytes == {0, 8, 129, 255}
CkSeeds == {0, 1, 255}
RECURSIVE SeqsUpTo(_)
SeqsUpTo(n) ==
    IF n = 0 THEN {<<>>}
    ELSE LET shorter == SeqsUpTo(n - 1)
         IN shorter \cup {Append(q, b) : q \in {r \in shorter : Len(r) = n - 1},
                                         b \in CkBytes}
CkInputs ==
    {[kind |-> "int", value |-> v, data |-> <<>>, init |-> 0] : v \in Byte}
    \cup {[kind |-> "seq", value |-> 0, data |-> q, init |-> i] :
            q \in SeqsUpTo(MaxLen), i \in CkSeeds}

InitChecksum ==
    /\ InitDriver
    /\ ckIn \in CkInputs /\ ckOut = None

\* _checksum(data, init): the scalar branch for an int, the fold for bytes
_checksum ==
    /\ ckOut = None /\ ckIn.kind # "none"
    /\ ckOut' = IF ckIn.kind = "int"
                THEN Some(_checksum_int(ckIn.value))
                ELSE Some(_checksum_seq(ckIn.data, ckIn.init))
    /\ UNCHANGED <<ckIn, hostVars, devVars, wire>>

NextChecksum == _checksum

SpecChecksum == InitChecksum /\ [][NextChecksum]_vars

(***************************************************************************)
(* _check_acknowledge on its own                                           *)
(***************************************************************************)
\* what the port holds when the ACK is awaited: nothing (a timeout), or up to
\* MaxLen bytes of ACK, NACK and others
AckBytes == {ACK, NACK, 0, 255}
AckStreams == UNION {[1..n -> AckBytes] : n \in 0..MaxLen}
AckInputs ==
    {[kind |-> "ack", value |-> 0, data |-> q, init |-> 0] : q \in AckStreams}

InitAck ==
    /\ InitDriver
    /\ ckIn \in AckInputs /\ ckOut = None

\* self._check_acknowledge() on the bytes that wait in the port
await_ack ==
    /\ ckOut = None /\ ckIn.kind = "ack"
    /\ ckOut' = Some(_check_acknowledge(ckIn.data))
    /\ UNCHANGED <<ckIn, hostVars, devVars, wire>>

NextAck == await_ack

SpecAck == InitAck /\ [][NextAck]_vars

(***************************************************************************)
(* One chunk of read, with the port's input buffer                         *)
(***************************************************************************)
\* the chunk that is read: 2 bytes, the second of them 0x79
LinkAddress == 231
LinkSize == 2
\* the most bytes the device has on their way at once
MaxInFlight == 3

\* the device's bytes, each marked as an answer to the frame the host has
\* transmitted last, until the host transmits the next one
Tagged(bytes) == [i \in 1..Len(bytes) |-> [byte |-> bytes[i], latest |-> TRUE]]
Untagged(q) == [i \in 1..Len(q) |-> q[i].byte]
Aged(q) == [i \in 1..Len(q) |-> [q[i] EXCEPT !.latest = FALSE]]

\* port.write(frame) and the reply the device sends to it, some time later
Transmitted(w, reply) ==
    [w EXCEPT !.in_flight = Aged(@) \o Tagged(reply), !.in_buffer = Aged(@)]
\* port.read(n) took what the buffer had, n bytes at most
Taken(w, n) == [w EXCEPT !.in_buffer = Drop(@, n)]
\* flushInput(): what the buffer holds at that moment is dropped
flushInput(w) == [w EXCEPT !.in_buffer = <<>>]
\* the replies short enough for the line
Fits(replies) == {r \in replies : Len(wire.in_flight) + Len(r) <= MaxInFlight}

InitLink ==
    /\ port = "open" /\ timeout = DEFAULT_TIMEOUT
    /\ _id = None /\ _version = None /\ _commands = None
    /\ _read_protection_status = None
    /\ pc = "ready" /\ call = NoCall
    /\ address = 0 /\ size = 0 /\ size_remain = 0 /\ data = <<>> /\ parameters = <<>>
    /\ tries = 0 /\ cmdTries = 0 /\ flushes = 0 /\ fails = 0 /\ exhausted = FALSE
    /\ tx = NoTx /\ rx = NoRx /\ result = NoResult /\ lastWrite = None /\ opsDone = 0
    /\ lastErase = FALSE /\ progress = <<>>
    /\ handler = NoHandler /\ bar_thread = NoThread
    /\ mem = InitMem /\ devAddr = 0 /\ devRunning = FALSE
    /\ ckIn = NoCk /\ ckOut = None
    /\ wire = NoWire

\* read(LinkAddress, LinkSize)
link_read ==
    /\ CanCall
    /\ read_call([address |-> Some(LinkAddress), size |-> Some(LinkSize),
                  memory_map |-> None])
    /\ UNCHANGED <<linkVars, memoVars, devVars, ckVars, cliVars, wire>>

\* a byte of the device reaches the port's input buffer
arrive ==
    /\ wire.in_flight # <<>>
    /\ wire' = [wire EXCEPT !.in_flight = Tail(@),
                            !.in_buffer = Append(@, Head(wire.in_flight))]
    /\ UNCHANGED <<hostVars, devVars, ckVars>>

\* _send_command up to its read: the command frame is written
link_send_command ==
    /\ pc = "cmd"
    /\ LET frame == to_bytes(CMD_READ_MEMORY, 1) \o _checksum_int(CMD_READ_MEMORY)
       IN \E done \in WriteResults(frame) :
          LET w == _serial_write(frame, done)
          IN \E reply \in Fits(Answers(~w.raised /\ ValidScalarFrame(w.sent), FALSE)) :
             /\ tx' = [step |-> "cmd", frames |-> <<w.sent>>, awaited |-> ~w.raised]
             /\ IF w.raised
                THEN /\ Fail(retry_wrapper_cmd(Ctl, TRUE), "cmd")
                     /\ wire' = flushInput(Transmitted(wire, reply))
                ELSE /\ pc' = "cmdack"
                     /\ wire' = Transmitted(wire, reply)
                     /\ UNCHANGED <<ctlVars, result>>
    /\ UNCHANGED <<linkVars, memoVars, call, localVars, histVars,
                   devVars, rx, ckVars, progress, cliVars>>

\* _set_address up to its read: the address frame is written
link_set_address ==
    /\ pc = "addr"
    /\ LET frame == to_bytes(offset, 4) \o _checksum_seq(to_bytes(offset, 4), 0)
       IN \E done \in WriteResults(frame) :
          LET w == _serial_write(frame, done)
          IN \E reply \in Fits(Answers(~w.raised /\ ValidSeqFrame(w.sent), FALSE)) :
             /\ tx' = [step |-> "addr", frames |-> <<w.sent>>, awaited |-> ~w.raised]
             /\ IF w.raised
                THEN /\ Fail(retry_wrapper(Ctl), "cmd")
                     /\ wire' = flushInput(Transmitted(wire, reply))
                ELSE /\ pc' = "addrack"
                     /\ wire' = Transmitted(wire, reply)
                     /\ UNCHANGED <<ctlVars, result>>
    /\ UNCHANGED <<linkVars, memoVars, call, localVars, histVars,
                   devVars, rx, ckVars, progress, cliVars>>

\* _read_memory_chunk after the address: [size - 1, checksum] goes out through
\* port.write unchecked; the device answers a whole frame with ACK and the bytes
link_read_memory_chunk ==
    /\ pc = "len"
    /\ LET frame == to_bytes(part_size - 1, 1) \o _checksum_int(part_size - 1)
       IN \E done \in WriteResults(frame) :
          LET sent == Take(frame, done)
          IN \E reply \in Fits(IF done = Len(frame)
                                THEN {<<ACK>> \o MemRead(mem, offset, part_size),
                                      <<NACK>>, <<>>}
                                ELSE Answers(FALSE, FALSE)) :
             /\ tx' = [step |-> "len", frames |-> <<sent>>, awaited |-> TRUE]
             /\ pc' = "lenack"
             /\ wire' = Transmitted(wire, reply)
    /\ UNCHANGED <<linkVars, memoVars, call, localVars, ctlVars, result, histVars,
                   devVars, rx, ckVars, progress, cliVars>>

\* _check_acknowledge() of the three frames: port.read() returns the first byte
\* of the buffer, or nothing when the timeout ends with the buffer empty; on a
\* failure the wrapper's _serial_flush follows at once
link_check_acknowledge ==
    /\ pc \in {"cmdack", "addrack", "lenack"}
    /\ LET a == _check_acknowledge(Untagged(wire.in_buffer))
           rest == Taken(wire, _RESPONSE_SIZE)
       IN IF ~a.raised
          THEN /\ wire' = [rest EXCEPT !.accepted =
                                Some(wire.in_buffer[1])]
               /\ pc' = CASE pc = "cmdack" -> "addr"
                           [] pc = "addrack" -> "len"
                           [] pc = "lenack" -> "data"
               /\ cmdTries' = 0
               /\ UNCHANGED <<tries, flushes, fails, exhausted, result>>
          ELSE /\ wire' = flushInput(rest)
               /\ Fail(IF pc = "cmdack" THEN retry_wrapper_cmd(Ctl, TRUE)
                       ELSE retry_wrapper(Ctl), "cmd")
    /\ UNCHANGED <<linkVars, memoVars, call, localVars, tx, histVars,
                   devVars, rx, ckVars, progress, cliVars>>

\* the _serial_read(size) that ends _read_memory_chunk: port.read(size) returns
\* size bytes, or fewer when the timeout ends first
link_serial_read ==
    /\ pc = "data"
    /\ LET r == _serial_read(Untagged(wire.in_buffer), part_size)
           rest == Taken(wire, part_size)
       IN IF ~r.raised
          THEN /\ wire' = rest
               /\ data' = data \o r.data
               /\ NextChunk(data \o r.data)
               /\ UNCHANGED exhausted
          ELSE /\ wire' = flushInput(rest)
               /\ Fail(retry_wrapper(Ctl), "cmd")
               /\ UNCHANGED <<data, size_remain, progress>>
    /\ UNCHANGED <<linkVars, memoVars, call, address, size, parameters, tx,
                   histVars, devVars, rx, ckVars, cliVars>>

NextLink ==
    \/ link_read \/ arrive
    \/ link_send_command \/ link_set_address \/ link_read_memory_chunk
    \/ link_check_acknowledge \/ link_serial_read

SpecLink == InitLink /\ [][NextLink]_vars

(***************************************************************************)
(* Ranged erase over maps of contiguous sectors                            *)
(***************************************************************************)
\* where sector i of the map begins, and the first address after it
SectorLo(map, i) == int_auto(map[i].address)
SectorHi(map, i) == int_auto(map[i].address) + int_auto(map[i].size)

\* every address of LOW_MAP with every size that stays inside it, and the
\* addresses and sizes around the sector bounds of MEMORY_MAP
RangeArgs ==
    {r \in [address : {Some(a) : a \in 0..15}, size : {Some(n) : n \in 1..16},
            memory_map : {Some(LOW_MAP)}] :
        Val(r.address) + Val(r.size) <= SectorHi(LOW_MAP, Len(LOW_MAP))}
    \cup
    {r \in [address : {Some(a) : a \in {256, 257, 511, 512, 575}},
            size : {Some(n) : n \in {1, 2, 255, 256, 257, 319, 320}},
            memory_map : {Some(MEMORY_MAP)}] :
        Val(r.address) + Val(r.size) <= SectorHi(MEMORY_MAP, Len(MEMORY_MAP))}

\* erase(address, size, memory_map) within the map
erase_range ==
    /\ pc = "ready" /\ opsDone < MaxLiveOps
    /\ \E args \in RangeArgs : erase_call(args)
    /\ UNCHANGED <<linkVars, memoVars, devVars, ckVars, wire, cliVars>>

NextRange ==
    \/ erase_range
    \/ _send_command \/ _perform_erase \/ _perform_erase_wait

\* a constructed driver that is used for one ranged erase
SpecRange == InitLink /\ [][NextRange]_vars

(***************************************************************************)
(* Properties                                                              *)
(***************************************************************************)
\* bit k of a byte, and the XOR of a seed and a sequence bit by bit: bit k of
\* the result is the parity of the number of operands that have bit k set
Weights == <<1, 2, 4, 8, 16, 32, 64, 128>>
Bit(v, k) == (v \div Weights[k + 1]) % 2
RECURSIVE CountBit(_, _, _, _)
\* how many of q[i..j] have bit k set
CountBit(q, k, i, j) ==
    IF i > j THEN 0 ELSE Bit(q[i], k) + CountBit(q, k, i + 1, j)
RECURSIVE ParitySum(_, _, _, _, _)
ParitySum(q, seed, k, i, j) ==
    IF k > 7 THEN 0
    ELSE ((Bit(seed, k) + CountBit(q, k, i, j)) % 2) * Weights[k + 1]
         + ParitySum(q, seed, k + 1, i, j)
ParityFold(q, seed) == ParitySum(q, seed, 0, 1, Len(q))
\* the same over a long sequence, 64 bytes at a time
RECURSIVE ParityFoldLong(_, _, _)
ParityFoldLong(q, seed, i) ==
    IF i > Len(q) THEN seed
    ELSE ParityFoldLong(q, ParitySum(q, seed, 0, i, Min(i + 63, Len(q))), i + 64)

IsPrefix(q, r) == Len(q) <= Len(r) /\ q = SubSeq(r, 1, Len(q))

\* the orderings of a sequence
Reorderings(q) ==
    {[i \in 1..Len(q) |-> q[f[i]]] :
        f \in {g \in [1..Len(q) -> 1..Len(q)] : \A i, j \in 1..Len(q) : g[i] = g[j] => i = j}}

\* the call that ended last was a read of the region the write before it wrote
ReadAfterWrite ==
    /\ pc = "ready" /\ result.op = "read" /\ lastWrite # None
    /\ call.address = Some(Val(lastWrite).address)
    /\ call.size = Some(Len(Val(lastWrite).data))

\* C1: a read of (address, len(data)) that follows a successful
\* write(address, data) and meets no link failure returns exactly data, for
\* every address
C1_RoundTrip ==
    (ReadAfterWrite /\ result.status # "DfuException")
    => (result.status = "ok" /\ result.value = Val(lastWrite).data)

\* a read or write with an explicit address and size is transferring chunks
Transferring ==
    /\ pc \in {"cmd", "addr", "len", "wdata"}
    /\ call.name \in {"read", "write"}
    /\ call.address # None

\* C2: for every address and every size >= 1 the chunks of a read or write
\* are min(256, remaining) bytes long, their offsets run contiguously from the
\* address given, and a read that meets no link failure returns size bytes
C2_Chunking ==
    /\ Transferring =>
        /\ part_size = Min(_RW_MAX_SIZE, size_remain)
        /\ part_size >= 1
        /\ offset = Val(call.address) + (size - size_remain)
        /\ offset + part_size <= Val(call.address) + size
    /\ (/\ pc = "ready" /\ result.op = "read" /\ call.address # None
        /\ call.size # None /\ Val(call.size) >= 1
        /\ result.status # "DfuException")
       => (result.status = "ok" /\ Len(result.value) = Val(call.size))

\* C3: once three consecutive attempts of send_command have failed in a call
\* that had no other failure, the call has ended with the retry-exhausted
\* error and the link was flushed exactly 3 times
C3_ThreeFlushes ==
    (exhausted /\ tx.step = "cmd" /\ tries <= 1)
    => (/\ pc = "ready" /\ result.status = "DfuException"
        /\ flushes = _RETRIES)

\* C4: after a retried primitive has exhausted its attempts the public call
\* in progress writes nothing more to the port: the command is not sent again
C4_Terminal ==
    [][(exhausted /\ opsDone' = opsDone) => tx' = tx]_vars

\* what a call that meets no failure returns
FailureFree ==
    CASE result.op = "read" -> MemRead(mem, address, size)
      [] result.op = "id" -> DEV_ID
      [] result.op = "version" -> <<DEV_VERSION>>
      [] result.op = "commands" -> DEV_COMMANDS
      [] result.op = "read_protection_status" -> DEV_OPTION_BYTES
      [] OTHER -> <<>>

C7_WriteFrame ==
    [][pc = "wdata" =>
        LET n == Len(chunk)
            sent == tx'.frames
        IN /\ n >= 1 /\ n <= _RW_MAX_SIZE
           /\ tx'.step = "wdata"
           /\ Len(sent) \in 1..3
           /\ IsPrefix(sent[1], <<n - 1>>)
           /\ Len(sent) >= 2 => (sent[1] = <<n - 1>> /\ IsPrefix(sent[2], chunk))
           /\ IF Len(sent) = 3
              THEN /\ sent[2] = chunk
                   /\ IsPrefix(sent[3], <<ParityFoldLong(chunk, n - 1, 1)>>)
                   /\ tx'.awaited <=> Len(sent[3]) = 1
              ELSE ~tx'.awaited]_vars
C7_Witness ==
    /\ tx.step = "wdata" /\ tx.awaited
    /\ tx.frames[1] = <<_RW_MAX_SIZE - 1>>
    /\ Len(tx.frames[2]) = _RW_MAX_SIZE
    /\ tx.frames[3] = <<ParityFoldLong(tx.frames[2], _RW_MAX_SIZE - 1, 1)>>
    /\ pc = "cmd" /\ size_remain = 1

\* C8: the sequence checksum of s seeded with i is the sequence checksum of
\* every reordering of s, the reversed s among them, seeded with i
C8_OrderIndependent ==
    (ckOut # None /\ ckIn.kind = "seq") =>
        \A r \in Reorderings(ckIn.data) : _checksum_seq(r, ckIn.init) = Val(ckOut)
C8_Witness ==
    /\ ckOut # None /\ ckIn.kind = "seq"
    /\ ckIn.data = <<8, 129, 255, 0>> /\ ckIn.init = 1
    /\ _checksum_seq(<<0, 255, 129, 8>>, 1) = Val(ckOut)

\* C9: the scalar checksum of v in 0..255 is 0xFF - v, the sequence checksum
\* is the XOR of the seed and the bytes, and both are one byte in 0..255
C9_Values ==
    ckOut # None =>
        /\ Len(Val(ckOut)) = 1 /\ Val(ckOut)[1] \in Byte
        /\ ckIn.kind = "int" => Val(ckOut)[1] = 255 - ckIn.value
        /\ ckIn.kind = "seq" => Val(ckOut)[1] = ParityFold(ckIn.data, ckIn.init)
        /\ (ckIn.kind = "int" /\ ckIn.value = 2) => Val(ckOut) = <<253>>
        /\ (ckIn.kind = "seq" /\ ckIn.data = <<8, 0, 0, 0>> /\ ckIn.init = 0)
            => Val(ckOut) = <<8>>
C9_Witness ==
    /\ ckIn.kind = "seq" /\ ckIn.data = <<8, 0, 0, 0>> /\ ckIn.init = 0
    /\ ckOut = Some(<<8>>)

\* the call in progress or ended last is erase() with neither address nor size
MassErase ==
    call.name = "erase" /\ ~TruthyInt(call.address) /\ ~TruthyInt(call.size)

\* C10: the parameter frame a mass erase sends after the acknowledged
\* extended erase command is the three bytes FF FF 00
C10_MassFrame ==
    (MassErase /\ tx.step \in {"params", "erasewait"}) =>
        /\ parameters = <<255, 255, 0>>
        /\ IF tx.awaited THEN tx.frames = << <<255, 255, 0>> >>
           ELSE tx.frames = << <<255, 255>> >>
C10_Witness ==
    /\ MassErase /\ pc = "ready" /\ result.status = "ok"
    /\ tx.step = "erasewait" /\ tx.frames = << <<255, 255, 0>> >>
    /\ \A i \in DOMAIN DEV_SECTORS :
        \A a \in DEV_SECTORS[i].address..(DEV_SECTORS[i].address + DEV_SECTORS[i].size - 1) :
            mem[a] = 255

\* the call in progress or ended last is erase(address, size, memory_map) with
\* all three given
RangedErase ==
    /\ call.name = "erase"
    /\ call.address # None /\ call.size # None /\ call.memory_map # None
    /\ TruthyInt(call.address) \/ TruthyInt(call.size)
    /\ TruthySeq(call.memory_map)
SectorAddress(i) == int_auto(Val(call.memory_map)[i + 1].address)
SectorEnd(i) == SectorAddress(i) + int_auto(Val(call.memory_map)[i + 1].size)
SectorIndices == {i - 1 : i \in DOMAIN Val(call.memory_map)}
\* the sectors (0-based) that hold the address, and those that hold the end
Holding == {i \in SectorIndices :
                SectorAddress(i) <= Val(call.address) /\ Val(call.address) < SectorEnd(i)}
Ending == {i \in SectorIndices :
                /\ SectorAddress(i) < Val(call.address) + Val(call.size)
                /\ Val(call.address) + Val(call.size) <= SectorEnd(i)}
Least(S) == CHOOSE i \in S : \A j \in S : i <= j
BigEndian2(v) == <<v \div 256, v % 256>>
RECURSIVE IndexBytes(_, _)
IndexBytes(i, j) == IF i > j THEN <<>> ELSE BigEndian2(i) \o IndexBytes(i + 1, j)
\* (end - start), the indices start..end, and the XOR of all of these bytes
RangeFrame(start, end) ==
    LET body == BigEndian2(end - start) \o IndexBytes(start, end)
    IN body \o <<ParityFold(body, 0)>>

WorkedErase ==
    /\ call.name = "erase" /\ call.memory_map = Some(STM_MAP)
    /\ call.address = Some(134217792) /\ call.size = Some(76543)

\* C12 as stated: the worked example resolves start 0 and end 1, so its frame
\* is 00 01 00 00 00 01 and the checksum
C12_WorkedExample ==
    WorkedErase => (Least(Holding) = 0 /\ Ending # {} /\ Least(Ending) = 1
                    /\ parameters = RangeFrame(0, 1))

\* C12: in the worked example start resolves to sector 0, but address + size
\* = 0x08012B3F lies beyond the end 0x08010000 of the last sector, so no end
\* sector is found and erase raises the boundary-lookup error with nothing
\* sent; with size 0x4000 the same call resolves start 0 and end 1
C12_WorkedExampleFails ==
    /\ WorkedErase =>
        /\ Least(Holding) = 0 /\ Ending = {}
        /\ Val(call.address) + Val(call.size) > SectorEnd(2)
        /\ pc \in {"ready", "closed"} /\ result.status = "AttributeError"
        /\ tx = NoTx /\ parameters = <<>>
    /\ (/\ call.name = "erase" /\ call.memory_map = Some(STM_MAP)
        /\ call.address = Some(134217792) /\ call.size = Some(16384)) =>
        (Least(Holding) = 0 /\ Least(Ending) = 1 /\ parameters = RangeFrame(0, 1))
C12_Witness ==
    /\ WorkedErase /\ pc = "ready" /\ result.op = "erase"
    /\ result.status = "AttributeError" /\ opsDone = 1

\* sectors i..j of the map lie one after the other with no hole
Contiguous(i, j) == \A k \in i..(j - 1) : SectorEnd(k) = SectorAddress(k + 1)
\* the range [address, address + size) lies in a run of contiguous sectors
Resolvable ==
    \E i, j \in SectorIndices :
        /\ i <= j /\ i \in Holding /\ j \in Ending /\ Contiguous(i, j)

\* C13: a ranged erase whose range cannot be resolved against the memory map
\* (a hole, an end beyond the map, an address outside it, a map out of order)
\* ends with the boundary-lookup error and sends nothing
C13_Unresolved ==
    (RangedErase /\ ~Resolvable) =>
        (pc \in {"ready", "closed"} /\ result.status = "AttributeError" /\ tx = NoTx)

\* C14: the port's read timeout is 5 minutes exactly while _perform_erase
\* waits for the erase ACK, and the default of 1 second everywhere else:
\* during the flush and the next attempt after a failed wait, and after erase
\* has returned or raised
C14_TimeoutDiscipline ==
    timeout = IF pc = "erasewait" THEN 5 * 60 ELSE 1
C14_Witness ==
    /\ call.name = "erase" /\ tx.step = "erasewait"
    /\ pc = "params" /\ tries = 2 /\ flushes = 2
    /\ timeout = 1

\* C15: once the id memo is set, every later id call on the driver returns
\* the memo, which is the identifier the first successful call returned, and
\* neither writes to, reads from nor flushes the port
C15_Memoized ==
    [][/\ (pc = "idresp" /\ _id' # _id) => (result'.status = "ok" /\ _id' = Some(result'.value))
       /\ (_id # None /\ opsDone' = opsDone + 1 /\ call'.name = "id") =>
            /\ pc' = "ready"
            /\ result' = [op |-> "id", status |-> "ok", value |-> Val(_id)]
            /\ _id' = _id
            /\ tx' = NoTx /\ rx' = NoRx
            /\ flushes' = 0 /\ fails' = 0
            /\ UNCHANGED devVars
       /\ _id # None => _id' = _id]_vars
C15_Witness ==
    /\ opsDone = 2 /\ call.name = "id" /\ pc = "ready"
    /\ _id = Some(DEV_ID) /\ result = [op |-> "id", status |-> "ok", value |-> DEV_ID]
    /\ tx = NoTx /\ rx = NoRx /\ flushes = 0

\* the device sent a whole get-version reply: N, the version byte, N command
\* bytes and the ACK
WholeVersionReply ==
    /\ rx.step = "verresp" /\ Len(rx.stream) >= 3
    /\ Len(rx.stream) = rx.stream[1] + 3
    /\ rx.stream[Len(rx.stream)] = ACK

\* C16: for every size byte N the device reports, version reads the size
\* byte, the version byte, N command bytes and one ACK, succeeds, and exposes
\* the version byte and exactly those N command bytes; with N = 0 the command
\* list is empty and the ACK is not taken as data
C16_VersionReply ==
    WholeVersionReply =>
        LET N == rx.stream[1]
        IN /\ rx.taken = SubSeq(rx.stream, 3, 2 + N)
           /\ pc \in {"ready", "closed"} /\ result.status = "ok"
           /\ result.value = <<rx.stream[2]>>
           /\ _version = Some(<<rx.stream[2]>>)
           /\ _commands = Some(SubSeq(rx.stream, 3, 2 + N))

\* the latest step wrote all the bytes of its frame to the port
WroteAll ==
    CASE tx.step = "init" -> Len(tx.frames[1]) = 1
      [] tx.step = "cmd" -> Len(tx.frames[1]) = 2
      [] tx.step = "addr" -> Len(tx.frames[1]) = 5
      [] tx.step = "len" -> Len(tx.frames[1]) = 2
      [] tx.step = "wdata" ->
            /\ Len(tx.frames) = 3
            /\ Len(tx.frames[1]) = 1 /\ Len(tx.frames[3]) = 1
            /\ Len(tx.frames[2]) = tx.frames[1][1] + 1
      [] tx.step \in {"params", "erasewait"} -> tx.frames[1] = parameters
      [] OTHER -> TRUE

\* C17: every write to the port is length-checked: an attempt whose frame
\* (init byte, command, address, write-chunk parts, erase parameters, length
\* frame of a read chunk) was accepted short does not go on to wait for the ACK
C17_LengthChecked ==
    tx.awaited => WroteAll

\* C18: when the init handshake fails, the init byte 0x7F went out in 3
\* attempts with one flush after each, the constructor raised the
\* retry-exhausted error, and nothing happens on that link afterwards: no
\* public call is ever started
C18_InitFails ==
    /\ [](pc = "failed" =>
            /\ tries = 3 /\ flushes = 3 /\ fails = 3 /\ exhausted
            /\ tx.step = "init" /\ IsPrefix(tx.frames[1], <<127>>)
            /\ opsDone = 0 /\ call = NoCall /\ result = NoResult)
    /\ [](pc = "init" => (tries < 3 /\ flushes = tries /\ opsDone = 0))
    /\ [][pc # "failed"]_vars
C18_Witness ==
    /\ pc = "failed" /\ tries = 3 /\ flushes = 3
    /\ tx = [step |-> "init", frames |-> << <<127>> >>, awaited |-> TRUE]

\* C19: on every exit path the port is closed: leaving the with-block, and a
\* constructor that fails in the init handshake
C19_Released ==
    pc \in {"failed", "closed"} => port = "closed"

\* C20: once the device has acknowledged go and left the bootloader, no call
\* on the driver writes to the port again
C20_NoExchangeAfterGo ==
    [][devRunning => (tx' = tx \/ tx' = NoTx)]_vars

\* the call has ended: it returned or raised, and the with-block may have been left
Ended == pc \in {"ready", "closed"} /\ result.op = call.name

\* the chunks of the transfer that have begun: all of them once the call has
\* returned, else those before the offset reached and the one at it
ChunksBegun ==
    IF Ended /\ result.status = "ok"
    THEN (size + _RW_MAX_SIZE - 1) \div _RW_MAX_SIZE
    ELSE (size - size_remain) \div _RW_MAX_SIZE + 1

\* C21: read and write of size >= 1 call the callback once before each chunk
\* with floor(100 * done / size), values that never decrease and lie in 0..99,
\* and with 100 exactly once, last, only when the last chunk has succeeded; a
\* call that fails never reports 100
C21_Progress ==
    (call.name \in {"read", "write"} /\ size >= 1) =>
        /\ Len(progress) = ChunksBegun + (IF Ended /\ result.status = "ok" THEN 1 ELSE 0)
        /\ \A k \in 1..ChunksBegun :
            /\ progress[k] \in 0..99
            /\ progress[k] * size <= 100 * (k - 1) * _RW_MAX_SIZE
            /\ 100 * (k - 1) * _RW_MAX_SIZE < (progress[k] + 1) * size
            /\ k > 1 => progress[k - 1] <= progress[k]
        /\ (Ended /\ result.status = "ok") =>
            /\ progress[Len(progress)] = 100
            /\ size_remain = 0
        /\ (Ended /\ result.status # "ok") =>
            \A k \in DOMAIN progress : progress[k] # 100

C21_Witness ==
    /\ call.name = "write" /\ size = MaxSize
    /\ Ended /\ result.status = "ok"
    /\ fails > 0
    /\ progress = <<0, 99, 100>>

\* C22: erase calls the callback exactly once, with 100, and only after the
\* device has acknowledged the parameter frame; an erase that fails in any way
\* never calls it
C22_EraseProgress ==
    call.name = "erase" =>
        IF Ended /\ result.status = "ok"
        THEN /\ progress = <<100>>
             /\ tx.step = "erasewait" /\ tx.awaited /\ tx.frames = <<parameters>>
        ELSE progress = <<>>

C22_Witness ==
    /\ call.name = "erase" /\ Ended /\ result.status = "ok"
    /\ fails > 0
    /\ progress = <<100>>

\* C23: when a chunk of a read or write has used up its retries the call is
\* over: no frame of a later chunk is sent, the DfuException reaches the caller,
\* and read hands back none of the bytes it had collected
C23_ChunkAborts ==
    (call.name \in {"read", "write"} /\ tries >= _RETRIES) =>
        /\ Ended
        /\ result.status = "DfuException" /\ result.value = <<>>
        /\ size_remain > 0
        /\ tx.step \in {"cmd", "addr", "len", "wdata"}

C23_Witness ==
    /\ call.name = "read" /\ tries >= _RETRIES
    /\ Ended /\ result.status = "DfuException"
    /\ Len(data) = _RW_MAX_SIZE /\ size_remain = 1

\* C24: after a mass erase that succeeded, read(memory_map=m) without address
\* and size reads the whole mapped region, from the start of the first sector
\* to the end of the last, and every byte of it is 0xFF
C24_ErasedReadsFF ==
    (/\ lastErase /\ call.name = "read" /\ Ended /\ result.status = "ok"
     /\ call.address = None /\ call.size = None /\ call.memory_map # None) =>
        LET last == Len(Val(call.memory_map)) - 1
        IN /\ address = SectorAddress(0)
           /\ Len(result.value) = SectorEnd(last) - SectorAddress(0)
           /\ \A i \in DOMAIN result.value : result.value[i] = 255

C24_Witness ==
    /\ lastErase /\ call.name = "read" /\ Ended /\ result.status = "ok"
    /\ call.address = None /\ call.size = None /\ call.memory_map # None
    /\ Len(result.value) = 320
    /\ fails > 0

\* load was started with --erase and without a memory map
LoadEraseNoMap ==
    handler.name = "load" /\ handler.erase /\ ~TruthySeq(handler.memory_map)

\* C25: load with --erase and no memory map performs a mass erase (FF FF 00),
\* whatever the address is, and writes the firmware only after that erase
\* has succeeded
C25_LoadErasesAll ==
    LoadEraseNoMap =>
        /\ handler.stage \in {"erase", "aborted", "raised"} =>
            /\ call.name = "erase" /\ parameters = <<255, 255, 0>>
            /\ result.status \in {"none", "ok", "DfuException"}
        /\ (handler.stage = "write") => lastErase

\* C26: after a handler has returned or raised no progress bar thread it
\* started is alive, and one covering a call that failed was set to -1
C26_ThreadEnds ==
    handler.stage \in {"returned", "raised"} =>
        /\ ~bar_thread.alive
        /\ (handler.stage = "raised" /\ bar_thread # NoThread) =>
                _progress = Some(0 - 1)

\* C27: the wait for an acknowledgement takes exactly one byte from the port
\* and succeeds if and only if that byte is 0x79; nothing read (a timeout),
\* NACK and every other byte raise, and the bytes after the first stay unread
C27_AwaitAck ==
    (ckIn.kind = "ack" /\ ckOut # None) =>
        LET q == ckIn.data
            out == Val(ckOut)
        IN /\ out.raised <=> ~(Len(q) >= 1 /\ q[1] = 121)
           /\ out.rest = IF q = <<>> THEN <<>> ELSE Tail(q)

C27_Witness ==
    /\ ckIn.kind = "ack" /\ ckIn.data = <<0, 121>>
    /\ ckOut # None /\ Val(ckOut).raised /\ Val(ckOut).rest = <<121>>

\* C28: in erase the parameter frame goes out only straight after an extended
\* erase command frame that the device acknowledged: the attempt that follows
\* a failed parameter frame begins with the command again
C28_CommandBeforeParameters ==
    (call.name = "erase" /\ pc = "params") =>
        /\ tx.step = "cmd" /\ tx.awaited
        /\ tx.frames = << <<68, 187>> >>

BigEndian4(v) ==
    <<v \div 16777216, (v \div 65536) % 256, (v \div 256) % 256, v % 256>>

\* C29: an attempt of a read chunk of n bytes goes, in this order, through the
\* read-memory command frame and its ACK, the 4-byte big-endian address with
\* its checksum and its ACK, the frame [n - 1, 0xFF - (n - 1)] and its ACK, and
\* then exactly n data bytes; a step is reached only through the ACK of the
\* step before, a failure anywhere starts over at the command, and nothing is
\* awaited after the data
C29_ReadChunkOrder ==
    [][(call.name = "read" /\ pc \in {"cmd", "addr", "len"}) =>
        /\ pc' = "addr" =>
            /\ pc = "cmd" /\ tx'.step = "cmd" /\ tx'.awaited
            /\ tx'.frames = << <<17, 238>> >>
        /\ pc' = "len" =>
            /\ pc = "addr" /\ tx'.step = "addr" /\ tx'.awaited
            /\ tx'.frames = << BigEndian4(offset)
                                \o <<ParityFold(BigEndian4(offset), 0)>> >>
        /\ data' # data =>
            /\ pc = "len" /\ tx'.step = "len"
            /\ tx'.frames = << <<part_size - 1, 255 - (part_size - 1)>> >>
            /\ Len(data') = Len(data) + part_size
            /\ size_remain' = size_remain - part_size
            /\ pc' \in {"cmd", "ready"}
        /\ size_remain' # size_remain => data' # data
        /\ fails' > fails => (pc' \in {"cmd", "ready"} /\ data' = data)
        /\ (pc = "cmd" /\ fails' = fails) => pc' = "addr"
        /\ (pc = "addr" /\ fails' = fails) => pc' = "len"
        /\ (pc = "len" /\ fails' = fails) => data' # data
      ]_vars

C29_Witness ==
    /\ call.name = "read" /\ size = MaxSize
    /\ tx.step = "len" /\ Len(data) = MaxSize
    /\ flushes > 0

\* the reply to a query arrived whole and closed with ACK
WholeReply(body) == rx'.stream = body \o <<121>>

\* C30: a memo field is set only by a query that went through to its closing
\* ACK, and to what that query read; a failed attempt leaves every memo as it
\* was, and a memo that is set is never changed or cleared again, by go or by
\* any other call
C30_MemoFrame ==
    [][/\ _id' # _id =>
            /\ _id = None /\ call.name = "id" /\ pc = "idresp"
            /\ pc' = "ready" /\ result'.status = "ok"
            /\ WholeReply(<<Len(DEV_ID) - 1>> \o DEV_ID)
            /\ _id' = Some(DEV_ID) /\ result'.value = DEV_ID
       /\ (_version' # _version \/ _commands' # _commands) =>
            /\ _version = None /\ _commands = None
            /\ call.name \in {"version", "commands"} /\ pc = "verresp"
            /\ pc' = "ready" /\ result'.status = "ok"
            /\ \E list \in DEV_COMMAND_LISTS :
                /\ list # <<>>
                /\ WholeReply(<<Len(list), DEV_VERSION>> \o list)
                /\ _version' = Some(<<DEV_VERSION>>) /\ _commands' = Some(list)
       /\ _read_protection_status' # _read_protection_status =>
            /\ _read_protection_status = None
            /\ call.name = "read_protection_status" /\ pc = "rpsresp"
            /\ pc' = "ready" /\ result'.status = "ok"
            /\ WholeReply(<<DEV_VERSION>> \o DEV_OPTION_BYTES)
            /\ _read_protection_status' = Some(DEV_OPTION_BYTES)
       /\ (fails' > fails \/ result'.status \notin {"none", "ok"}) =>
            memoVars' = memoVars
       /\ (call.name \in {"go", "read", "write", "erase"}
            \/ call'.name \in {"go", "read", "write", "erase"}) =>
            memoVars' = memoVars
      ]_vars

C30_Witness ==
    /\ call.name = "go" /\ Ended /\ result.status = "ok" /\ devRunning
    /\ _read_protection_status = Some(DEV_OPTION_BYTES)

\* C31: the legacy read asks for min(256, remaining) bytes in every
\* transaction, and a read that meets no link failure returns exactly size
\* bytes, also when size is above 256
C31_LegacyChunks ==
    (call.name = "read" /\ tx.step = "len") =>
        /\ (pc = "cmd" \/ Ended) =>
            /\ tx.frames # <<>>
            /\ tx.frames[1][1] + 1 <= _RW_MAX_SIZE
        /\ (Ended /\ result.status # legacy_retry_wrapper) =>
            /\ result.status = "ok"
            /\ Len(result.value) = size

\* C32: the legacy erase sends the parameter frame once when the device
\* acknowledges it, then returns and reports 100; and the timeout is the
\* default when erase has ended, however it ended
C32_LegacyErase ==
    (call.name = "erase") =>
        /\ (pc = "params") => tries = 0
        /\ (Ended /\ tries >= 1) =>
            /\ result.status = "ok"
            /\ progress = <<100>>
        /\ Ended => timeout = 1

\* the constructor or a public call is in progress
Running ==
    pc \in {"init", "cmd", "addr", "len", "wdata", "params", "erasewait",
            "idresp", "verresp", "rpsresp"}

\* a chunk, a go or an identify is in progress
Retried == Running /\ call.name \in {"read", "write", "go", "id"}

\* the attempt of _send_command about to be made, counted over the outer
\* attempts of 3 command attempts each
CommandRank == _RETRIES * tries + cmdTries

\* C33: the constructor and every public call end, with a result or an error,
\* when every step ends; within one chunk, one go or one identify every
\* command frame goes out at its own place among 3 outer attempts of 3 command
\* attempts each (at most 9 frames), and the link is flushed at most 12 times
C33_Terminates ==
    /\ [](Retried =>
            /\ tries < 3 /\ cmdTries < 3
            /\ flushes <= 4 * tries + (IF pc = "cmd" THEN cmdTries ELSE 2))
    /\ [](flushes <= 12)
    /\ [][(Retried /\ pc' = "cmd" /\ call' = call /\ size_remain' = size_remain) =>
            (CommandRank' > CommandRank /\ CommandRank' <= 8)]_vars
    /\ (Running ~> ~Running)

C33_Witness ==
    /\ call.name = "go" /\ Ended /\ result.status = "DfuException"
    /\ flushes = 12 /\ tx.step = "cmd"

\* C34: every byte that _check_acknowledge accepts as ACK was sent by the
\* device in answer to the frame the host transmitted last; no byte answering
\* an earlier frame is accepted after the flush of a failed attempt
C34_NoStaleAck ==
    wire.accepted # None => Val(wire.accepted).latest

\* C35: load calls go only when the read-back returned what the firmware file
\* holds, and after an erase, a write or a read-back that failed the handler
\* makes no further driver call
C35_GoAfterVerify ==
    [][handler.name = "load" =>
          /\ (handler.stage = "read" /\ handler'.stage = "go") =>
                result.value = handler.firmware
          /\ (CallEnded /\ result.status # "ok") =>
                handler'.stage \in {handler.stage, "aborted", "raised"}
          /\ handler.stage \in {"aborted", "raised"} =>
                handler'.stage \in {handler.stage, "raised"} /\ opsDone' = opsDone]_vars

\* how many of the bars drawn show a terminal value
TerminalRenders ==
    Cardinality({i \in 1..Len(bar_thread.rendered) : Terminal(bar_thread.rendered[i])})

\* C36: however update() calls fall between the statements of the display
\* loop, the thread ends only after it has drawn the terminal value (100 or
\* -1), and it draws that value exactly once
C36_TerminalRendered ==
    bar_thread.at = "ended" =>
        /\ TerminalRenders = 1
        /\ Terminal(bar_thread.rendered[Len(bar_thread.rendered)])

\* the sectors of the map lie one after the other, in ascending order
ContiguousMap(map) ==
    /\ \A i \in DOMAIN map : SectorLo(map, i) < SectorHi(map, i)
    /\ \A i \in 1..(Len(map) - 1) : SectorHi(map, i) = SectorLo(map, i + 1)

\* C37: for a map of contiguous ascending sectors, an address inside it and a
\* size >= 1 that stays inside it, ranged erase resolves start <= end, sends
\* the count end - start >= 0, and the sectors it lists hold every address of
\* [address, address + size)
C37_RangeCovers ==
    (/\ call.name = "erase" /\ call.memory_map # None /\ call.address # None
     /\ call.size # None /\ Val(call.size) >= 1
     /\ ContiguousMap(Val(call.memory_map))
     /\ SectorLo(Val(call.memory_map), 1) <= Val(call.address)
     /\ Val(call.address) + Val(call.size)
            <= SectorHi(Val(call.memory_map), Len(Val(call.memory_map)))) =>
        LET map == Val(call.memory_map)
            listed == ErasedBy(parameters)
            count == from_bytes(SubSeq(parameters, 1, 2))
        IN /\ result.status \notin {"AttributeError", "TypeError", "OverflowError"}
           /\ Len(parameters) = 2 + 2 * (count + 1) + 1
           /\ Cardinality(listed) = count + 1
           /\ \A i \in listed, j \in listed : \A k \in i..j : k \in listed
           /\ \A x \in Val(call.address)..(Val(call.address) + Val(call.size) - 1) :
                \E i \in listed :
                    /\ i + 1 \in DOMAIN map
                    /\ SectorLo(map, i + 1) <= x /\ x < SectorHi(map, i + 1)
C37_Witness ==
    /\ call.name = "erase" /\ call.memory_map = Some(LOW_MAP)
    /\ call.address = Some(3) /\ call.size = Some(10)
    /\ parameters = RangeParameters(0, 2)
    /\ pc = "erasewait"

\* what erase raises before it has written anything
Rejected == {"AttributeError", "TypeError", "OverflowError"}

\* C38: an erase that is rejected (no memory map, or no sector found for a
\* bound) writes nothing to the port and leaves the timeout, the memo fields
\* and the device as they were; whenever erase has written a frame, the
\* parameter frame had been computed before
C38_RejectedErase ==
    /\ [][(call'.name = "erase" /\ opsDone' = opsDone + 1
            /\ result'.status \in Rejected) =>
                /\ tx' = NoTx /\ pc' = "ready"
                /\ timeout' = timeout /\ port' = port
                /\ memoVars' = memoVars /\ devVars' = devVars]_vars
    /\ []((call.name = "erase" /\ tx # NoTx) =>
                /\ result.status \notin Rejected
                /\ Len(parameters) >= 3 /\ ValidSeqFrame(parameters))
C38_Witness ==
    /\ call.name = "erase" /\ Ended /\ result.status = "AttributeError"
    /\ call.memory_map # None /\ call.address = Some(0)
    /\ tx = NoTx /\ timeout = DEFAULT_TIMEOUT
    /\ _id # None /\ opsDone = 2

=============================================================================
